---- MODULE Spec2Model ----
(***************************************************************************)
(* Railway Complaint AI: the React client (complaint form, home page,      *)
(* auth context, routes, admin dashboard, api client) against the REST     *)
(* backend.  The backend's code is not part of the client sources; it is   *)
(* modelled from the design document (sections 3-7) and kept in the        *)
(* "Serve..." actions and the operators they use.                          *)
(***************************************************************************)
EXTENDS Integers, Sequences, FiniteSets, TLC

VARIABLES
    store,      \* backend: the persisted complaints, in creation order
    nextId,     \* backend: the next complaintId to hand out
    clock,      \* backend: the timestamp source for createdAt
    token,      \* per browser: localStorage 'accessToken'
    auth,       \* per browser: AuthProvider state {user, loading}
    route,      \* per browser: the current location of BrowserRouter
    geo,        \* per browser: whether navigator.geolocation exists
    home,       \* per browser: HomePage state {complaint, error}
    form,       \* per browser: ComplaintForm state
    dash,       \* per browser: AdminDashboard state
    mine,       \* per browser: MyComplaints state
    calls       \* per browser: the requests and callbacks in flight

serverVars == <<store, nextId, clock>>
authVars == <<token, auth, route>>
vars == <<store, nextId, clock, token, auth, route, geo, home, form, dash, mine, calls>>

(***************************************************************************)
(* Bounds of the model.                                                    *)
(***************************************************************************)
MaxComplaints == 3
MaxTicketCalls == 2
MaxAdminCalls == 2
MaxAuthCalls == 1

(***************************************************************************)
(* Values.  JavaScript null/undefined is Null for objects and NoStr for    *)
(* strings; strings that the code trims are sequences of characters.       *)
(***************************************************************************)
Clients == {"c1", "c2"}
Null == [null |-> TRUE]
NoStr == "null"
NoFile == "nofile"
NoToken == "notoken"

Images == {"toilet.jpg"}
Tickets == {"ticketA.png", "ticketB.pdf"}
Whitespace == {" ", "\t"}

Users ==
    { [id |-> "rita", role |-> "rider"],
      [id |-> "dev", role |-> "department"],
      [id |-> "ada", role |-> "admin"] }
UserOf(t) == CHOOSE u \in Users : u.id = t
TokenOf(u) == u.id
Tokens == {TokenOf(u) : u \in Users}

Truthy(s) == s # NoStr /\ s # "" /\ s # NoFile /\ s # NoToken
NotNull(x) == x # Null

RECURSIVE TrimLeft(_)
TrimLeft(s) ==
    IF s # <<>> /\ Head(s) \in Whitespace THEN TrimLeft(Tail(s)) ELSE s
RECURSIVE TrimRight(_)
TrimRight(s) ==
    IF s # <<>> /\ s[Len(s)] \in Whitespace
    THEN TrimRight(SubSeq(s, 1, Len(s) - 1)) ELSE s
Trim(s) == TrimRight(TrimLeft(s))

\* values of FormData.append and JSON.stringify: strings, not the values themselves
ToStr(n) == <<"str", n>>
ParseNum(s) == s[2]
Stringify(x) == <<"json", x>>
ParseJson(s) == s[2]
Bearer(t) == <<"Bearer", t>>

Has(f, k) == k \in DOMAIN f
Put(k, v) == k :> v
NoFields == [k \in {} |-> Null]

RemoveAt(s, i) == SubSeq(s, 1, i - 1) \o SubSeq(s, i + 1, Len(s))

(***************************************************************************)
(* api(path, options): the request that goes out and what the caller gets. *)
(***************************************************************************)
\* mutant: the header is set whether or not a token is stored
Mut_ApiHeaders(c, headers) == Put("Authorization", Bearer(token[c])) @@ headers
ApiHeaders(c, headers) ==
    IF Truthy(token[c])
    THEN Put("Authorization", Bearer(token[c])) @@ headers
    ELSE headers

ApiRequest(c, path, method, headers, body) ==
    [path |-> path, method |-> method, headers |-> ApiHeaders(c, headers), body |-> body]

JsonHeaders == Put("Content-Type", "application/json")

NetworkError == [net |-> FALSE, ok |-> FALSE, code |-> 0, data |-> NoFields]
Reply(code, data) == [net |-> TRUE, ok |-> code \in 200..299, code |-> code, data |-> data]
ErrorReply(code, msg) == Reply(code, Put("error", msg))

ApiThrows(res) == ~res.net \/ ~res.ok
\* mutant: the thrown Error is built from data.message alone
Mut_ApiErrorMessage(res) ==
    IF ~res.net THEN "Failed to fetch"
    ELSE IF Has(res.data, "message") THEN res.data.message
    ELSE ""
ApiErrorMessage(res) ==
    IF ~res.net THEN "Failed to fetch"
    ELSE IF Has(res.data, "error") /\ Truthy(res.data.error) THEN res.data.error
    ELSE IF Has(res.data, "message") /\ Truthy(res.data.message) THEN res.data.message
    ELSE "Request failed"
Field(data, k) == IF Has(data, k) THEN data[k] ELSE Null

\* A call in flight: the request, what the awaiting function holds in its closure
\* (ctx), whether the reply is there (st, res) and whether the component that
\* awaits it is still mounted (orphan).
NewCall(kind, req, ctx) ==
    [kind |-> kind, req |-> req, ctx |-> ctx, st |-> "sent", res |-> NetworkError,
     orphan |-> FALSE]
\* a call to an endpoint that keeps no state: its reply is fixed from the start
NewCallWithReply(kind, req, ctx, res) ==
    [kind |-> kind, req |-> req, ctx |-> ctx, st |-> "done", res |-> res, orphan |-> FALSE]
\* The calls in flight are kept grouped by kind (the order between requests of
\* different kinds is never observed), and in issue order within a kind.
KindRank(kind) ==
    CASE kind = "reader" -> 1 [] kind = "geo" -> 2 [] kind = "resolve" -> 2
      [] kind = "extract" -> 3 [] kind = "submit" -> 4 [] kind = "me" -> 5
      [] kind = "login" -> 6 [] kind = "list" -> 7 [] kind = "map" -> 8
      [] kind = "insights" -> 9 [] kind = "setStatus" -> 10 [] kind = "assign" -> 10
      [] kind = "my" -> 11 [] OTHER -> 12
Inserted(cs, call) ==
    LET n == Cardinality({j \in 1..Len(cs) : KindRank(cs[j].kind) <= KindRank(call.kind)})
    IN  SubSeq(cs, 1, n) \o <<call>> \o SubSeq(cs, n + 1, Len(cs))
Issue(c, call) == [calls EXCEPT ![c] = Inserted(@, call)]
Pending(c, i, kind) ==
    i \in 1..Len(calls[c]) /\ calls[c][i].kind = kind /\ calls[c][i].st = "sent"
Replied(c, i, kind) ==
    i \in 1..Len(calls[c]) /\ calls[c][i].kind = kind /\ calls[c][i].st = "done"
Answer(c, i, res) == [calls EXCEPT ![c][i].st = "done", ![c][i].res = res]
Finish(c, i) == [calls EXCEPT ![c] = RemoveAt(@, i)]
InFlight(c, kind) ==
    Cardinality({i \in 1..Len(calls[c]) : calls[c][i].kind = kind /\ ~calls[c][i].orphan})
FormKinds == {"reader", "geo", "resolve", "extract", "submit"}
\* Unmounting ComplaintForm: its pending callbacks set state on an unmounted
\* component, which React ignores.  A pending submit still reaches the backend, so
\* it stays in flight marked orphan; the other callbacks have no effect left and
\* are dropped here.
Orphaned(cs) ==
    LET kept == SelectSeq(cs, LAMBDA k : k.kind \notin (FormKinds \ {"submit"}))
    IN  [i \in 1..Len(kept) |->
            IF kept[i].kind = "submit" THEN [kept[i] EXCEPT !.orphan = TRUE] ELSE kept[i]]

(***************************************************************************)
(* Backend, modelled from the design document: classifier, resolver,       *)
(* extractor, assembler.                                                   *)
(***************************************************************************)
HousekeepingDept == <<"H", "S">>
EmergencyDept == <<"G", "R", "P">>
ElectricalDept == <<"E", "M">>

Classify(image) ==
    IF image = "fire.jpg"
    THEN [issueCategory |-> "Safety & Security Concerns", priority |-> "CRITICAL",
          department |-> EmergencyDept, issueDetails |-> "smoke in coach"]
    ELSE [issueCategory |-> "Cleanliness, Sanitation & Hygiene", priority |-> "LOW",
          department |-> HousekeepingDept, issueDetails |-> "dirty toilet"]

Positions ==
    { [latitude |-> 28, longitude |-> 77, accuracy |-> 10],
      [latitude |-> 0, longitude |-> 0, accuracy |-> 5] }
NearestStation(lat, lon) == IF lat = 28 /\ lon = 77 THEN "NDLS" ELSE NoStr

ResolvedLocation(lat, lon, acc) ==
    [latitude |-> lat, longitude |-> lon, accuracyM |-> acc,
     nearestStation |-> NearestStation(lat, lon)]

ExtractedDetails(file) ==
    IF file = "ticketA.png"
    THEN [trainNumber |-> "12951", coachNumber |-> "B2"]
    ELSE [trainNumber |-> "12002", coachNumber |-> NoStr]

Principal(req) ==
    IF Has(req.headers, "Authorization") /\ req.headers["Authorization"][2] \in Tokens
    THEN UserOf(req.headers["Authorization"][2])
    ELSE Null
OwnerId(u) == IF u = Null THEN NoStr ELSE u.id

SubmittedLocation(fd) ==
    IF Has(fd, "latitude") /\ Has(fd, "longitude")
    THEN ResolvedLocation(ParseNum(fd.latitude), ParseNum(fd.longitude),
                          IF Has(fd, "accuracy_m") THEN ParseNum(fd.accuracy_m) ELSE 0)
    ELSE Null
SubmittedTrainDetails(fd) ==
    IF Has(fd, "train_details") THEN ParseJson(fd.train_details) ELSE Null

\* mutant: the id does not depend on the counter
Mut_NewComplaintId(n) == 1
NewComplaintId(n) == n
InitialStatus == "pending"

NewComplaint(fd, owner, id, now) ==
    [complaintId |-> NewComplaintId(id),
     issueCategory |-> Classify(fd.image).issueCategory,
     issueDetails |-> Classify(fd.image).issueDetails,
     priority |-> Classify(fd.image).priority,
     department |-> Classify(fd.image).department,
     status |-> InitialStatus,
     location |-> SubmittedLocation(fd),
     trainDetails |-> SubmittedTrainDetails(fd),
     ownerUserId |-> OwnerId(owner),
     createdAt |-> now]

\* POST /api/complaint/submit
ServeSubmit(c, i) ==
    /\ Pending(c, i, "submit")
    /\ LET req == calls[c][i].req
           fd == req.body
       IN  \/ /\ ~Has(fd, "image")
              /\ calls' = Answer(c, i, ErrorReply(400, "ValidationFailure"))
              /\ UNCHANGED serverVars
           \/ /\ Has(fd, "image")
              /\ calls' = Answer(c, i, ErrorReply(502, "ClassificationFailure"))
              /\ UNCHANGED serverVars
           \/ /\ Has(fd, "image")
              /\ Len(store) < MaxComplaints
              /\ LET complaint == NewComplaint(fd, Principal(req), nextId, clock)
                 IN  /\ store' = Append(store, complaint)
                     /\ calls' = Answer(c, i, Reply(201, Put("complaint", complaint)))
              /\ nextId' = nextId + 1
              /\ clock' = clock + 1
    /\ UNCHANGED <<authVars, geo, mine, home, form, dash>>

\* POST /api/location/resolve and POST /api/ticket/extract keep no state on the
\* backend: what the caller can get back is a set of replies, and which one it
\* will be is fixed when the request goes out.
ResolveReplies(req) ==
    { Reply(200, Put("location", ResolvedLocation(req.body.latitude, req.body.longitude,
                                                  req.body.accuracy_m))),
      ErrorReply(503, "LocationUnresolved") }

ExtractReplies(req) ==
    { Reply(200, Put("trainDetails", ExtractedDetails(req.body.ticket))),
      ErrorReply(422, "ExtractionFailure") }

\* a request or its response is lost: fetch rejects
NetworkFailure(c, i) ==
    /\ i \in 1..Len(calls[c])
    /\ calls[c][i].st = "sent"
    /\ calls[c][i].kind \in {"submit", "list", "setStatus", "assign"}
    /\ calls' = Answer(c, i, NetworkError)
    /\ UNCHANGED <<serverVars, authVars, geo, mine, home, form, dash>>

(***************************************************************************)
(* HomePage (App.js) and ComplaintForm (ComplaintForm.js).                 *)
(***************************************************************************)
TextInputs == { <<>>, <<" ">>, <<"d">> }
GeoErrorMessages == {"", "Timeout expired"}

InitHome == [complaint |-> Null, error |-> NoStr]
InitForm ==
    [submitting |-> FALSE, image |-> NoFile, imagePreview |-> NoStr,
     additionalText |-> <<>>, location |-> Null, locationError |-> NoStr,
     locationLoading |-> FALSE, trainDetails |-> Null, ticketFile |-> NoFile,
     ticketLoading |-> FALSE, ticketError |-> NoStr]

HomeMounted(c) == route[c] = "/"
FormMounted(c) == HomeMounted(c) /\ home[c].complaint = Null
ResultShown(c) == HomeMounted(c) /\ home[c].complaint # Null
\* the `loading` prop HomePage passes to ComplaintForm
LoadingProp == FALSE

\* mutant: a failed submission leaves no error message
Mut_HomePage_handleSubmit(complaintData, errorMessage) ==
    IF Truthy(errorMessage)
    THEN [complaint |-> Null, error |-> NoStr]
    ELSE [complaint |-> complaintData, error |-> NoStr]
HomePage_handleSubmit(complaintData, errorMessage) ==
    IF Truthy(errorMessage)
    THEN [complaint |-> Null, error |-> errorMessage]
    ELSE [complaint |-> complaintData, error |-> NoStr]

HomePage_handleReset(c) ==
    /\ ResultShown(c)
    /\ home' = [home EXCEPT ![c] = InitHome]
    /\ form' = [form EXCEPT ![c] = InitForm]
    /\ UNCHANGED <<serverVars, authVars, geo, mine, dash, calls>>

DataUrl(file) == "data:" \o file

handleImageChange(c, file) ==
    /\ FormMounted(c)
    /\ ~(LoadingProp \/ form[c].submitting)
    /\ file \in Images
    /\ file # form[c].image      \* onChange fires when the selection changes
    /\ form' = [form EXCEPT ![c].image = file]
    /\ calls' = [calls EXCEPT ![c] =
                    Inserted(SelectSeq(@, LAMBDA k : k.kind # "reader"),
                             NewCall("reader", NoFields, [file |-> file]))]
    /\ UNCHANGED <<serverVars, authVars, geo, mine, home, dash>>

reader_onloadend(c, i) ==
    /\ Pending(c, i, "reader")
    /\ form' = [form EXCEPT ![c].imagePreview = DataUrl(calls[c][i].ctx.file)]
    /\ calls' = Finish(c, i)
    /\ UNCHANGED <<serverVars, authVars, geo, mine, home, dash>>

setAdditionalText(c, text) ==
    /\ FormMounted(c)
    /\ ~(LoadingProp \/ form[c].submitting)
    /\ text \in TextInputs
    /\ text # form[c].additionalText
    /\ form' = [form EXCEPT ![c].additionalText = text]
    /\ UNCHANGED <<serverVars, authVars, geo, mine, home, dash, calls>>

captureLocation(c) ==
    /\ FormMounted(c)
    /\ ~form[c].locationLoading
    /\ IF ~geo[c]
       THEN /\ form' = [form EXCEPT
                    ![c].locationError = "Geolocation is not supported by your browser.",
                    ![c].locationLoading = FALSE]
            /\ UNCHANGED calls
       ELSE /\ form' = [form EXCEPT ![c].locationError = NoStr, ![c].locationLoading = TRUE]
            /\ calls' = Issue(c, NewCall("geo", NoFields, NoFields))
    /\ UNCHANGED <<serverVars, authVars, geo, mine, home, dash>>

resolveLocation(c, latitude, longitude, accuracy) ==
    ApiRequest(c, <<"/api/location/resolve">>, "POST", JsonHeaders,
               [latitude |-> latitude, longitude |-> longitude, accuracy_m |-> accuracy])

\* getCurrentPosition's success callback, up to its await
geo_success(c, i, pos, res) ==
    /\ Pending(c, i, "geo")
    /\ pos \in Positions
    /\ LET req == resolveLocation(c, pos.latitude, pos.longitude, pos.accuracy)
       IN  /\ res \in ResolveReplies(req)
           /\ calls' = [calls EXCEPT ![c][i] =
                           NewCallWithReply("resolve", req, [coords |-> pos], res)]
    /\ UNCHANGED <<serverVars, authVars, geo, mine, home, form, dash>>

\* getCurrentPosition's error callback
geo_error(c, i, message) ==
    /\ Pending(c, i, "geo")
    /\ message \in GeoErrorMessages
    /\ form' = [form EXCEPT
                  ![c].locationError =
                      IF Truthy(message) THEN message ELSE "Location permission denied.",
                  ![c].locationLoading = FALSE]
    /\ calls' = Finish(c, i)
    /\ UNCHANGED <<serverVars, authVars, geo, mine, home, dash>>

RawLocation(coords) ==
    [latitude |-> coords.latitude, longitude |-> coords.longitude,
     accuracyM |-> coords.accuracy]

\* mutant: the catch branch reports the error and keeps no coordinates
Mut_LocationOutcome(f, coords, res) ==
    IF ApiThrows(res)
    THEN [f EXCEPT !.locationError = "Could not resolve railway context.",
                   !.locationLoading = FALSE]
    ELSE [f EXCEPT !.location = Field(res.data, "location"),
                   !.locationLoading = FALSE]
\* try / catch / finally around `await resolveLocation(...)`: the form after it
LocationOutcome(f, coords, res) ==
    IF ApiThrows(res)
    THEN [f EXCEPT !.locationError = "Could not resolve railway context.",
                   !.location = RawLocation(coords),
                   !.locationLoading = FALSE]
    ELSE [f EXCEPT !.location = Field(res.data, "location"),
                   !.locationLoading = FALSE]

captureLocation_resolved(c, i) ==
    /\ Replied(c, i, "resolve")
    /\ form' = [form EXCEPT ![c] =
                   LocationOutcome(@, calls[c][i].ctx.coords, calls[c][i].res)]
    /\ calls' = Finish(c, i)
    /\ UNCHANGED <<serverVars, authVars, geo, mine, home, dash>>

extractTicket(c, file) ==
    ApiRequest(c, <<"/api/ticket/extract">>, "POST", NoFields, [ticket |-> file])

handleTicketChange(c, file, res) ==
    /\ FormMounted(c)
    /\ ~(LoadingProp \/ form[c].submitting)
    /\ file \in Tickets
    /\ file # form[c].ticketFile \* onChange fires when the selection changes
    /\ InFlight(c, "extract") < MaxTicketCalls
    /\ res \in ExtractReplies(extractTicket(c, file))
    /\ form' = [form EXCEPT ![c].ticketError = NoStr, ![c].ticketFile = file,
                            ![c].ticketLoading = TRUE]
    /\ calls' = Issue(c, NewCallWithReply("extract", extractTicket(c, file), NoFields, res))
    /\ UNCHANGED <<serverVars, authVars, geo, mine, home, dash>>

\* mutant: the catch branch leaves the earlier train details in place
Mut_TicketOutcome(f, res) ==
    IF ApiThrows(res)
    THEN [f EXCEPT !.ticketError = ApiErrorMessage(res), !.ticketLoading = FALSE]
    ELSE [f EXCEPT !.trainDetails = Field(res.data, "trainDetails"),
                   !.ticketLoading = FALSE]
\* try / catch / finally around `await extractTicket(file)`: the form after it
TicketOutcome(f, res) ==
    IF ApiThrows(res)
    THEN [f EXCEPT !.ticketError = ApiErrorMessage(res),
                   !.trainDetails = Null,
                   !.ticketLoading = FALSE]
    ELSE [f EXCEPT !.trainDetails = Field(res.data, "trainDetails"),
                   !.ticketLoading = FALSE]

handleTicketChange_done(c, i) ==
    /\ Replied(c, i, "extract")
    /\ form' = [form EXCEPT ![c] = TicketOutcome(@, calls[c][i].res)]
    /\ calls' = Finish(c, i)
    /\ UNCHANGED <<serverVars, authVars, geo, mine, home, dash>>

\* mutant: the image is appended under another field name
Mut_BuildFormData(f) ==
    Put("file", f.image)
    @@ (IF f.location # Null
        THEN Put("latitude", ToStr(f.location.latitude))
             @@ Put("longitude", ToStr(f.location.longitude))
        ELSE NoFields)
    @@ (IF f.trainDetails # Null
        THEN Put("train_details", Stringify(f.trainDetails)) ELSE NoFields)
\* mutant: the coordinates are appended only for a location that names a station
Mut_FormDataOfStation(f) ==
    Put("image", f.image)
    @@ (IF Trim(f.additionalText) # <<>> THEN Put("text", Trim(f.additionalText)) ELSE NoFields)
    @@ (IF f.location # Null /\ Has(f.location, "nearestStation")
           /\ Truthy(f.location.nearestStation)
        THEN Put("latitude", ToStr(f.location.latitude))
             @@ Put("longitude", ToStr(f.location.longitude))
        ELSE NoFields)
    @@ (IF f.trainDetails # Null
        THEN Put("train_details", Stringify(f.trainDetails)) ELSE NoFields)
BuildFormData(f) ==
    Put("image", f.image)
    @@ (IF Trim(f.additionalText) # <<>> THEN Put("text", Trim(f.additionalText)) ELSE NoFields)
    @@ (IF f.location # Null
        THEN Put("latitude", ToStr(f.location.latitude))
             @@ Put("longitude", ToStr(f.location.longitude))
             @@ (IF Has(f.location, "accuracyM")
                 THEN Put("accuracy_m", ToStr(f.location.accuracyM)) ELSE NoFields)
        ELSE NoFields)
    @@ (IF f.trainDetails # Null
        THEN Put("train_details", Stringify(f.trainDetails)) ELSE NoFields)

submitComplaint(c, formData) ==
    ApiRequest(c, <<"/api/complaint/submit">>, "POST", NoFields, formData)

\* the submit button's `disabled`
SubmitDisabled(f) == ~Truthy(f.image) \/ LoadingProp \/ f.submitting

handleSubmit(c) ==
    /\ FormMounted(c)
    /\ ~SubmitDisabled(form[c])
    /\ Truthy(form[c].image)
    /\ form' = [form EXCEPT ![c].submitting = TRUE]
    /\ calls' = Issue(c, NewCall("submit", submitComplaint(c, BuildFormData(form[c])),
                                 [image |-> form[c].image]))
    /\ UNCHANGED <<serverVars, authVars, geo, mine, home, dash>>

\* what handleSubmit hands to onSubmit after `await submitComplaint(formData)`:
\* HomePage's state after it
SubmitOutcome(res) ==
    IF ApiThrows(res)
    THEN HomePage_handleSubmit(Null, ApiErrorMessage(res))
    ELSE HomePage_handleSubmit(Field(res.data, "complaint"), NoStr)

handleSubmit_done(c, i) ==
    /\ Replied(c, i, "submit")
    /\ LET k == calls[c][i]
           h == IF k.orphan THEN home[c] ELSE SubmitOutcome(k.res)
       IN  /\ home' = [home EXCEPT ![c] = h]
           /\ IF k.orphan
              THEN /\ form' = form
                   /\ calls' = Finish(c, i)
              ELSE IF h.complaint # Null
              THEN /\ form' = [form EXCEPT ![c] = InitForm]
                   /\ calls' = [calls EXCEPT ![c] = Orphaned(RemoveAt(@, i))]
              ELSE /\ form' = [form EXCEPT ![c].submitting = FALSE]
                   /\ calls' = Finish(c, i)
    /\ UNCHANGED <<serverVars, authVars, geo, mine, dash>>

handleReset(c) ==
    /\ FormMounted(c)
    /\ Truthy(form[c].imagePreview)
    /\ form' = [form EXCEPT ![c].image = NoFile, ![c].imagePreview = NoStr,
                            ![c].additionalText = <<>>, ![c].location = Null,
                            ![c].locationError = NoStr, ![c].trainDetails = Null,
                            ![c].ticketFile = NoFile, ![c].ticketError = NoStr]
    /\ UNCHANGED <<serverVars, authVars, geo, mine, home, dash, calls>>

(***************************************************************************)
(* Backend, modelled from the design document: workflow engine and the     *)
(* admin queries.                                                          *)
(***************************************************************************)
ValidStatuses == {"pending", "in_progress", "resolved"}
\* the isAdmin predicate of the workflow engine
Elevated(u) == u.role \in {"admin", "department"}
\* what an admin route answers before it looks at the request: nothing (Null)
\* for an elevated principal
AdminGate(req) ==
    IF Principal(req) = Null THEN ErrorReply(401, "Unauthorized")
    ELSE IF ~Elevated(Principal(req)) THEN ErrorReply(403, "Forbidden")
    ELSE Null
IndexOf(st, complaintId) ==
    IF \E j \in 1..Len(st) : st[j].complaintId = complaintId
    THEN CHOOSE j \in 1..Len(st) : st[j].complaintId = complaintId
    ELSE 0

\* mutant: the update stamps the complaint anew
Mut_SetStatus(st, j, status) == [st EXCEPT ![j].status = status, ![j].createdAt = @ + 1]
SetStatus(st, j, status) == [st EXCEPT ![j].status = status]
\* mutant: the update writes the whole complaint, with the status it was filed with
Mut_Assign(st, j, department) ==
    [st EXCEPT ![j].department = department, ![j].status = InitialStatus]
Assign(st, j, department) == [st EXCEPT ![j].department = department]

\* PATCH /api/admin/complaints/:id/status
ServeSetStatus(c, i) ==
    /\ Pending(c, i, "setStatus")
    /\ LET req == calls[c][i].req
           j == IndexOf(store, req.path[2])
           status == ParseJson(req.body).status
       IN  IF AdminGate(req) # Null
           THEN calls' = Answer(c, i, AdminGate(req)) /\ store' = store
           ELSE IF j = 0
           THEN calls' = Answer(c, i, ErrorReply(404, "NotFound")) /\ store' = store
           ELSE IF status \notin ValidStatuses
           THEN calls' = Answer(c, i, ErrorReply(400, "ValidationFailure")) /\ store' = store
           ELSE /\ store' = SetStatus(store, j, status)
                /\ calls' = Answer(c, i, Reply(200, Put("complaint", store'[j])))
    /\ UNCHANGED <<nextId, clock, authVars, geo, mine, home, form, dash>>

\* PATCH /api/admin/complaints/:id/assign
ServeAssign(c, i) ==
    /\ Pending(c, i, "assign")
    /\ LET req == calls[c][i].req
           j == IndexOf(store, req.path[2])
           department == ParseJson(req.body).department
       IN  IF AdminGate(req) # Null
           THEN calls' = Answer(c, i, AdminGate(req)) /\ store' = store
           ELSE IF j = 0
           THEN calls' = Answer(c, i, ErrorReply(404, "NotFound")) /\ store' = store
           ELSE IF Trim(department) = <<>>
           THEN calls' = Answer(c, i, ErrorReply(400, "ValidationFailure")) /\ store' = store
           ELSE /\ store' = Assign(store, j, department)
                /\ calls' = Answer(c, i, Reply(200, Put("complaint", store'[j])))
    /\ UNCHANGED <<nextId, clock, authVars, geo, mine, home, form, dash>>

\* listAdmin(filter): a blank field of the filter is no constraint; the station is
\* matched as a substring of the name of the nearest station
NoFilter == [station |-> "", train_number |-> "", issue_type |-> "", status |-> ""]
Fragments == { <<"NDL", "NDLS">> }
Within(q, name) == q = name \/ <<q, name>> \in Fragments
\* mutant: a blank status is matched like any other
Mut_Matches(k, q) ==
    /\ q.station = "" \/ (k.location # Null /\ Within(q.station, k.location.nearestStation))
    /\ q.train_number = ""
          \/ (k.trainDetails # Null /\ k.trainDetails.trainNumber = q.train_number)
    /\ q.issue_type = "" \/ k.issueCategory = q.issue_type
    /\ k.status = q.status
Matches(k, q) ==
    /\ q.station = "" \/ (k.location # Null /\ Within(q.station, k.location.nearestStation))
    /\ q.train_number = ""
          \/ (k.trainDetails # Null /\ k.trainDetails.trainNumber = q.train_number)
    /\ q.issue_type = "" \/ k.issueCategory = q.issue_type
    /\ q.status = "" \/ k.status = q.status
ListAdmin(st, q) == SelectSeq(st, LAMBDA k : Matches(k, q))

\* GET /api/admin/complaints?station&train_number&issue_type&status
ServeAdminComplaints(c, i) ==
    /\ Pending(c, i, "list")
    /\ LET req == calls[c][i].req
       IN  IF AdminGate(req) # Null
           THEN calls' = Answer(c, i, AdminGate(req))
           ELSE calls' = Answer(c, i, Reply(200, Put("complaints",
                                                      ListAdmin(store, req.path[2]))))
    /\ UNCHANGED <<serverVars, authVars, geo, mine, home, form, dash>>

\* mutant: listOwn forgets the owner
Mut_ListOwn(st, userId) == st
\* listOwn(userId)
ListOwn(st, userId) == SelectSeq(st, LAMBDA k : k.ownerUserId = userId)

\* GET /api/complaint/my
ServeMyComplaints(c, i) ==
    /\ Pending(c, i, "my")
    /\ LET req == calls[c][i].req
       IN  calls' = Answer(c, i,
                       IF Principal(req) = Null THEN ErrorReply(401, "Unauthorized")
                       ELSE Reply(200, Put("complaints",
                                           ListOwn(store, OwnerId(Principal(req))))))
    /\ UNCHANGED <<serverVars, authVars, geo, mine, home, form, dash>>

\* map-point extraction and the aggregate counts
MapPoint(k) ==
    [complaintId |-> k.complaintId, latitude |-> k.location.latitude,
     longitude |-> k.location.longitude, nearestStation |-> k.location.nearestStation]
MapPoints(st) ==
    LET located == SelectSeq(st, LAMBDA k : k.location # Null)
    IN  [j \in 1..Len(located) |-> MapPoint(located[j])]
\* mutant: a key is counted once however many complaints have it
Mut_CountBy(st, field) == [v \in {st[j][field] : j \in 1..Len(st)} |-> 1]
CountBy(st, field) ==
    [v \in {st[j][field] : j \in 1..Len(st)} |->
        Cardinality({j \in 1..Len(st) : st[j][field] = v})]
Insights(st) ==
    [byCategory |-> CountBy(st, "issueCategory"), byStatus |-> CountBy(st, "status"),
     byPriority |-> CountBy(st, "priority")]

(***************************************************************************)
(* AuthContext: isAdmin; App.js: ProtectedRoute.                           *)
(***************************************************************************)
\* mutant: any signed-in user counts as admin
Mut_isAdmin(user) == user # Null
isAdmin(user) == user # Null /\ (user.role = "admin" \/ user.role = "department")

\* what <ProtectedRoute adminOnly> renders under the auth context a: the loading
\* notice, a <Navigate> to another route, or its children
\* mutant: the route does not wait for the identity check
Mut_ProtectedRoute(a, adminOnly) ==
    IF a.user = Null THEN "/login"
    ELSE IF adminOnly /\ ~isAdmin(a.user) THEN "/"
    ELSE "children"
ProtectedRoute(a, adminOnly) ==
    IF a.loading THEN "loading"
    ELSE IF a.user = Null THEN "/login"
    ELSE IF adminOnly /\ ~isAdmin(a.user) THEN "/"
    ELSE "children"

(***************************************************************************)
(* AdminDashboard.                                                         *)
(***************************************************************************)
\* mutant: a fourth option in the status select
Mut_STATUS_OPTIONS == <<"pending", "in_progress", "resolved", "closed">>
STATUS_OPTIONS == <<"pending", "in_progress", "resolved">>
NoId == 0
DeptInputs == { <<>>, <<" ">>, <<" ", "E", "M">> }
Views == {"list", "map"}

InitDash ==
    [complaints |-> <<>>, mapPoints |-> <<>>, insights |-> Null, loading |-> TRUE,
     error |-> NoStr, filter |-> NoFilter, assigning |-> NoId,
     assignDeptByComplaint |-> NoFields, view |-> "list"]

DashMounted(c) == route[c] = "/admin" /\ ProtectedRoute(auth[c], TRUE) = "children"
\* the list view is rendered
ListShown(c) == DashMounted(c) /\ ~Truthy(dash[c].error) /\ dash[c].view = "list"
\* the complaint cards are rendered
CardsShown(c) == ListShown(c) /\ ~dash[c].loading
Card(c, complaintId) == IndexOf(dash[c].complaints, complaintId)
\* calls of the dashboard that are in flight
DashKinds == {"list", "map", "insights", "setStatus", "assign"}
DashInFlight(c) == Cardinality({i \in 1..Len(calls[c]) : calls[c][i].kind \in DashKinds})

adminComplaints(c, params) ==
    ApiRequest(c, <<"/api/admin/complaints", params>>, "GET", NoFields, Null)
adminSetStatus(c, complaintId, status) ==
    ApiRequest(c, <<"/api/admin/complaints", complaintId, "status">>, "PATCH",
               JsonHeaders, Stringify([status |-> status]))
adminAssign(c, complaintId, department) ==
    ApiRequest(c, <<"/api/admin/complaints", complaintId, "assign">>, "PATCH",
               JsonHeaders, Stringify([department |-> department]))

setView(c, view) ==
    /\ DashMounted(c) /\ ~Truthy(dash[c].error)
    /\ view \in Views /\ view # dash[c].view
    /\ dash' = [dash EXCEPT ![c].view = view]
    /\ UNCHANGED <<serverVars, authVars, geo, mine, home, form, calls>>

\* the inputs of the filter form: onChange
FilterInputs ==
    [station |-> {"", "NDL", "Pune"}, train_number |-> {"", "12951"},
     issue_type |-> {"", "Safety & Security Concerns"},
     status |-> {""} \cup {STATUS_OPTIONS[n] : n \in DOMAIN STATUS_OPTIONS}]
setFilter(c, field, value) ==
    /\ ListShown(c)
    /\ field \in DOMAIN dash[c].filter
    /\ value # dash[c].filter[field]
    /\ dash' = [dash EXCEPT ![c].filter[field] = value]
    /\ UNCHANGED <<serverVars, authVars, geo, mine, home, form, calls>>

\* handleFilter -> loadComplaints
handleFilter(c) ==
    /\ ListShown(c)
    /\ DashInFlight(c) < MaxAdminCalls
    /\ dash' = [dash EXCEPT ![c].loading = TRUE]
    /\ calls' = Issue(c, NewCall("list", adminComplaints(c, dash[c].filter), NoFields))
    /\ UNCHANGED <<serverVars, authVars, geo, mine, home, form>>

\* data.complaints || []
LoadedComplaints(res) ==
    IF Has(res.data, "complaints") THEN res.data.complaints ELSE <<>>

loadComplaints_done(c, i) ==
    /\ Replied(c, i, "list")
    /\ LET res == calls[c][i].res
       IN  dash' = IF calls[c][i].orphan THEN dash
                   ELSE IF ApiThrows(res)
                   THEN [dash EXCEPT ![c].error = ApiErrorMessage(res),
                                     ![c].loading = FALSE]
                   ELSE [dash EXCEPT ![c].complaints = LoadedComplaints(res),
                                     ![c].loading = FALSE]
    /\ calls' = Finish(c, i)
    /\ UNCHANGED <<serverVars, authVars, geo, mine, home, form>>

\* prev.map((c) => c.complaintId === complaintId ? data.complaint : c)
Replaced(prev, complaintId, complaint) ==
    [j \in 1..Len(prev) |->
        IF prev[j].complaintId = complaintId THEN complaint ELSE prev[j]]

\* the status <select> of a card: onChange
handleStatusChange(c, complaintId, status) ==
    /\ CardsShown(c)
    /\ Card(c, complaintId) # 0
    /\ \E n \in DOMAIN STATUS_OPTIONS : status = STATUS_OPTIONS[n]
    /\ status # dash[c].complaints[Card(c, complaintId)].status
    /\ DashInFlight(c) < MaxAdminCalls
    /\ calls' = Issue(c, NewCall("setStatus", adminSetStatus(c, complaintId, status),
                                 [complaintId |-> complaintId]))
    /\ UNCHANGED <<serverVars, authVars, geo, mine, home, form, dash>>

\* the dashboard after adminSetStatus settled: .then / .catch(console.error)
StatusOutcome(d, complaintId, res) ==
    IF ApiThrows(res) THEN d
    ELSE [d EXCEPT !.complaints = Replaced(@, complaintId, Field(res.data, "complaint"))]

handleStatusChange_done(c, i) ==
    /\ Replied(c, i, "setStatus")
    /\ dash' = IF calls[c][i].orphan THEN dash
               ELSE [dash EXCEPT ![c] = StatusOutcome(@, calls[c][i].ctx.complaintId,
                                                      calls[c][i].res)]
    /\ calls' = Finish(c, i)
    /\ UNCHANGED <<serverVars, authVars, geo, mine, home, form>>

\* assignDeptByComplaint[complaintId] || ''
DeptInput(d, complaintId) ==
    IF Has(d.assignDeptByComplaint, complaintId)
    THEN d.assignDeptByComplaint[complaintId] ELSE <<>>

\* the department <input> of a card: onChange
setAssignDeptByComplaint(c, complaintId, text) ==
    /\ CardsShown(c)
    /\ Card(c, complaintId) # 0
    /\ text # DeptInput(dash[c], complaintId)
    /\ dash' = [dash EXCEPT ![c].assignDeptByComplaint = Put(complaintId, text) @@ @]
    /\ UNCHANGED <<serverVars, authVars, geo, mine, home, form, calls>>

\* mutant: the typed department is not trimmed
Mut_AssignDept(d, complaintId) == DeptInput(d, complaintId)
\* const dept = (assignDeptByComplaint[complaintId] || '').trim()
AssignDept(d, complaintId) == Trim(DeptInput(d, complaintId))
\* the Assign button's `disabled`
AssignDisabled(d, complaintId) ==
    Trim(DeptInput(d, complaintId)) = <<>> \/ d.assigning = complaintId

\* handleAssign up to its request; `by` is the Assign button or the Enter key
handleAssign(c, complaintId, by) ==
    /\ CardsShown(c)
    /\ Card(c, complaintId) # 0
    /\ by \in {"click", "Enter"}
    /\ by = "click" => ~AssignDisabled(dash[c], complaintId)
    /\ LET dept == AssignDept(dash[c], complaintId)
       IN  IF dept = <<>>
           THEN UNCHANGED <<dash, calls>>
           ELSE /\ DashInFlight(c) < MaxAdminCalls
                /\ dash' = [dash EXCEPT ![c].assigning = complaintId]
                /\ calls' = Issue(c, NewCall("assign", adminAssign(c, complaintId, dept),
                                             [complaintId |-> complaintId]))
    /\ UNCHANGED <<serverVars, authVars, geo, mine, home, form>>

\* mutant: `assigning` is cleared in the .then, there is no .finally
Mut_AssignOutcome(d, complaintId, res) ==
    IF ApiThrows(res) THEN d
    ELSE [d EXCEPT !.complaints = Replaced(@, complaintId, Field(res.data, "complaint")),
                   !.assignDeptByComplaint = Put(complaintId, <<>>) @@ @,
                   !.assigning = NoId]
\* the dashboard after adminAssign settled: .then / .catch / .finally
AssignOutcome(d, complaintId, res) ==
    IF ApiThrows(res) THEN [d EXCEPT !.assigning = NoId]
    ELSE [d EXCEPT !.complaints = Replaced(@, complaintId, Field(res.data, "complaint")),
                   !.assignDeptByComplaint = Put(complaintId, <<>>) @@ @,
                   !.assigning = NoId]

handleAssign_done(c, i) ==
    /\ Replied(c, i, "assign")
    /\ dash' = IF calls[c][i].orphan THEN dash
               ELSE [dash EXCEPT ![c] = AssignOutcome(@, calls[c][i].ctx.complaintId,
                                                      calls[c][i].res)]
    /\ calls' = Finish(c, i)
    /\ UNCHANGED <<serverVars, authVars, geo, mine, home, form>>

(***************************************************************************)
(* MyComplaints.                                                           *)
(***************************************************************************)
InitMine == [complaints |-> <<>>, loading |-> TRUE, error |-> NoStr]
MineMounted(c) ==
    route[c] = "/my-complaints" /\ ProtectedRoute(auth[c], FALSE) = "children"
getMyComplaints(c) == ApiRequest(c, <<"/api/complaint/my">>, "GET", NoFields, Null)

\* useEffect(() => { getMyComplaints()... }, [])
MyComplaintsEffect(c, cs) == Inserted(cs, NewCall("my", getMyComplaints(c), NoFields))
\* unmounting MyComplaints: the callbacks of its call have no effect left
MineUnmounted(cs) == SelectSeq(cs, LAMBDA k : k.kind # "my")

\* then / catch / finally of the effect
MineOutcome(m, res) ==
    IF ApiThrows(res) THEN [m EXCEPT !.error = ApiErrorMessage(res), !.loading = FALSE]
    ELSE [m EXCEPT !.complaints = LoadedComplaints(res), !.loading = FALSE]

MyComplaints_done(c, i) ==
    /\ Replied(c, i, "my")
    /\ mine' = [mine EXCEPT ![c] = MineOutcome(@, calls[c][i].res)]
    /\ calls' = Finish(c, i)
    /\ UNCHANGED <<serverVars, authVars, geo, home, form, dash>>

\* what MyComplaints renders: the loading notice, the error, or the list
MineView(m) ==
    IF m.loading THEN [shows |-> "loading"]
    ELSE IF Truthy(m.error) THEN [shows |-> "error", error |-> m.error]
    ELSE [shows |-> "list", complaints |-> m.complaints]

(***************************************************************************)
(* Specifications of the complaint intake.  Each starts from freshly       *)
(* mounted home pages, an empty store and riders that are logged in.       *)
(***************************************************************************)
InitIntake ==
    /\ store = <<>>
    /\ nextId = 1
    /\ clock = 1
    /\ token = [c \in Clients |-> IF c = "c1" THEN "rita" ELSE "dev"]
    /\ auth = [c \in Clients |-> [user |-> UserOf(token[c]), loading |-> FALSE]]
    /\ route = [c \in Clients |-> "/"]
    /\ home = [c \in Clients |-> InitHome]
    /\ form = [c \in Clients |-> InitForm]
    /\ dash = [c \in Clients |-> InitDash]
    /\ mine = [c \in Clients |-> InitMine]
    /\ calls = [c \in Clients |-> <<>>]

SubmitNext(c, images) ==
    \/ \E file \in images : handleImageChange(c, file)
    \/ \E i \in 1..Len(calls[c]) : reader_onloadend(c, i)
    \/ handleSubmit(c)
    \/ \E i \in 1..Len(calls[c]) : handleSubmit_done(c, i)
    \/ handleReset(c)
    \/ \E i \in 1..Len(calls[c]) : ServeSubmit(c, i)

\* one browser: ticket upload and submission
NextTicket ==
    \/ SubmitNext("c1", {"toilet.jpg"})
    \/ \E file \in Tickets : \E res \in ExtractReplies(extractTicket("c1", file)) :
          handleTicketChange("c1", file, res)
    \/ \E i \in 1..Len(calls["c1"]) : handleTicketChange_done("c1", i)
InitTicket == InitIntake /\ geo = [c \in Clients |-> TRUE]
SpecTicket == InitTicket /\ [][NextTicket]_vars

\* one browser: location capture, free text and submission
NextLocation ==
    \/ SubmitNext("c1", {"toilet.jpg"})
    \/ \E text \in TextInputs : setAdditionalText("c1", text)
    \/ captureLocation("c1")
    \/ \E i \in 1..Len(calls["c1"]), pos \in Positions :
          \E res \in ResolveReplies(resolveLocation("c1", pos.latitude, pos.longitude,
                                                    pos.accuracy)) :
             geo_success("c1", i, pos, res)
    \/ \E i \in 1..Len(calls["c1"]), m \in GeoErrorMessages : geo_error("c1", i, m)
    \/ \E i \in 1..Len(calls["c1"]) : captureLocation_resolved("c1", i)
InitLocation == InitIntake /\ geo \in [Clients -> BOOLEAN] /\ geo["c2"]
SpecLocation == InitLocation /\ [][NextLocation]_vars

\* one browser: a ticket, a position and submission
NextDetails ==
    \/ SubmitNext("c1", {"toilet.jpg"})
    \/ \E res \in ExtractReplies(extractTicket("c1", "ticketA.png")) :
          handleTicketChange("c1", "ticketA.png", res)
    \/ \E i \in 1..Len(calls["c1"]) : handleTicketChange_done("c1", i)
    \/ captureLocation("c1")
    \/ \E i \in 1..Len(calls["c1"]) :
          \E res \in ResolveReplies(resolveLocation("c1", 28, 77, 10)) :
             geo_success("c1", i, [latitude |-> 28, longitude |-> 77, accuracy |-> 10], res)
    \/ \E i \in 1..Len(calls["c1"]), m \in GeoErrorMessages : geo_error("c1", i, m)
    \/ \E i \in 1..Len(calls["c1"]) : captureLocation_resolved("c1", i)
InitDetails == InitIntake /\ geo = [c \in Clients |-> TRUE]
SpecDetails == InitDetails /\ [][NextDetails]_vars

\* two browsers of different users submitting at the same time
NextSubmit ==
    \E c \in Clients :
       \/ SubmitNext(c, Images)
       \/ HomePage_handleReset(c)
       \/ \E i \in 1..Len(calls[c]) : NetworkFailure(c, i)
InitSubmit == InitIntake /\ geo = [c \in Clients |-> TRUE]
SpecSubmit == InitSubmit /\ [][NextSubmit]_vars

\* GET /api/admin/complaints/map
ServeAdminMap(c, i) ==
    /\ Pending(c, i, "map")
    /\ calls' = Answer(c, i, IF AdminGate(calls[c][i].req) # Null
                             THEN AdminGate(calls[c][i].req)
                             ELSE Reply(200, Put("points", MapPoints(store))))
    /\ UNCHANGED <<serverVars, authVars, geo, mine, home, form, dash>>

\* GET /api/admin/insights
ServeAdminInsights(c, i) ==
    /\ Pending(c, i, "insights")
    /\ calls' = Answer(c, i, IF AdminGate(calls[c][i].req) # Null
                             THEN AdminGate(calls[c][i].req)
                             ELSE Reply(200, Put("insights", Insights(store))))
    /\ UNCHANGED <<serverVars, authVars, geo, mine, home, form, dash>>

adminComplaintsMap(c) ==
    ApiRequest(c, <<"/api/admin/complaints/map">>, "GET", NoFields, Null)
adminInsights(c) == ApiRequest(c, <<"/api/admin/insights">>, "GET", NoFields, Null)

\* loadMap: then / catch
loadMap_done(c, i) ==
    /\ Replied(c, i, "map")
    /\ LET res == calls[c][i].res
       IN  dash' = IF calls[c][i].orphan THEN dash
                   ELSE IF ApiThrows(res) \/ ~Has(res.data, "points")
                   THEN [dash EXCEPT ![c].mapPoints = <<>>]
                   ELSE [dash EXCEPT ![c].mapPoints = res.data.points]
    /\ calls' = Finish(c, i)
    /\ UNCHANGED <<serverVars, authVars, geo, mine, home, form>>

\* loadInsights: then / catch
loadInsights_done(c, i) ==
    /\ Replied(c, i, "insights")
    /\ LET res == calls[c][i].res
       IN  dash' = IF calls[c][i].orphan THEN dash
                   ELSE IF ApiThrows(res) THEN [dash EXCEPT ![c].insights = Null]
                   ELSE [dash EXCEPT ![c].insights = Field(res.data, "insights")]
    /\ calls' = Finish(c, i)
    /\ UNCHANGED <<serverVars, authVars, geo, mine, home, form>>

\* useEffect(() => { loadComplaints(); loadMap(); loadInsights(); }, [])
DashboardEffect(c, cs) ==
    Inserted(Inserted(Inserted(cs,
        NewCall("list", adminComplaints(c, InitDash.filter), NoFields)),
        NewCall("map", adminComplaintsMap(c), NoFields)),
        NewCall("insights", adminInsights(c), NoFields))

\* Unmounting AdminDashboard: the callbacks of its calls set state on an unmounted
\* component.  A setStatus or assign that is not served yet still reaches the
\* backend and stays in flight marked orphan; the other calls are dropped.
DashUnmounted(cs) ==
    LET kept == SelectSeq(cs, LAMBDA k : k.kind \notin DashKinds
                                            \/ (k.kind \in {"setStatus", "assign"}
                                                /\ k.st = "sent"))
    IN  [i \in 1..Len(kept) |->
            IF kept[i].kind \in DashKinds THEN [kept[i] EXCEPT !.orphan = TRUE] ELSE kept[i]]

(***************************************************************************)
(* App.js: routes and navigation; AuthContext.js: AuthProvider.            *)
(***************************************************************************)
Routes == {"/", "/login", "/my-complaints", "/admin"}
\* what the element of route r renders under the auth context a
Guarded(r, a) ==
    IF r = "/admin" THEN ProtectedRoute(a, TRUE)
    ELSE IF r = "/my-complaints" THEN ProtectedRoute(a, FALSE)
    ELSE "children"
\* the route the router ends on: <Navigate replace> of ProtectedRoute
Landed(r, a) == IF Guarded(r, a) \in Routes THEN Guarded(r, a) ELSE r

\* The page of browser c once its auth context is a and its route is asked to be r:
\* pages that leave the screen lose their state and their callbacks, a dashboard
\* that enters it starts its loads.
Routed(c, a, r, cs) ==
    LET to == Landed(r, a)
        was == DashMounted(c)
        now == to = "/admin" /\ ProtectedRoute(a, TRUE) = "children"
        stay == route[c] = "/" /\ to = "/"
        wasMine == MineMounted(c)
        nowMine == to = "/my-complaints" /\ ProtectedRoute(a, FALSE) = "children"
        left == IF route[c] = "/" /\ to # "/" THEN Orphaned(cs) ELSE cs
        dashed == IF was /\ ~now THEN DashUnmounted(left)
                  ELSE IF now /\ ~was THEN DashboardEffect(c, left)
                  ELSE left
    IN  /\ route' = [route EXCEPT ![c] = to]
        /\ home' = [home EXCEPT ![c] = IF stay THEN @ ELSE InitHome]
        /\ form' = [form EXCEPT ![c] = IF stay THEN @ ELSE InitForm]
        /\ dash' = [dash EXCEPT ![c] = IF was /\ now THEN @ ELSE InitDash]
        /\ mine' = [mine EXCEPT ![c] = IF wasMine /\ nowMine THEN @ ELSE InitMine]
        /\ calls' = [calls EXCEPT ![c] =
                        IF wasMine /\ ~nowMine THEN MineUnmounted(dashed)
                        ELSE IF nowMine /\ ~wasMine THEN MyComplaintsEffect(c, dashed)
                        ELSE dashed]

\* GET /api/auth/me keeps no state: the reply is fixed when the request goes out
MeRequest(t) ==
    [path |-> <<"/api/auth/me">>, method |-> "GET",
     headers |-> Put("Authorization", Bearer(t)), body |-> Null]
MeReplies(t) ==
    { IF t \in Tokens THEN Reply(200, Put("user", UserOf(t)))
      ELSE ErrorReply(401, "Unauthorized"),
      ErrorReply(401, "Unauthorized") }

\* The page is loaded at route r (address bar, reload): the scripts of the page that
\* was there are gone, AuthProvider starts and asks /api/auth/me when a token is stored.
PageLoad(c, r, res) ==
    /\ r \in Routes
    /\ res \in MeReplies(token[c])
    /\ LET a == [user |-> Null, loading |-> Truthy(token[c])]
           gone == DashUnmounted(Orphaned(SelectSeq(calls[c],
                                     LAMBDA k : k.kind \notin {"me", "login", "my"})))
       IN  /\ auth' = [auth EXCEPT ![c] = a]
           /\ route' = [route EXCEPT ![c] = Landed(r, a)]
           /\ calls' = [calls EXCEPT ![c] =
                           IF Truthy(token[c])
                           THEN Inserted(gone, NewCallWithReply("me", MeRequest(token[c]),
                                                                NoFields, res))
                           ELSE gone]
    /\ home' = [home EXCEPT ![c] = InitHome]
    /\ form' = [form EXCEPT ![c] = InitForm]
    /\ dash' = [dash EXCEPT ![c] = InitDash]
    /\ mine' = [mine EXCEPT ![c] = InitMine]
    /\ UNCHANGED <<serverVars, token, geo>>

\* AuthProvider's effect once /api/auth/me answered: then / catch / finally
AuthProvider_me(c, i) ==
    /\ Replied(c, i, "me")
    /\ LET res == calls[c][i].res
           a == [user |-> IF res.net /\ Has(res.data, "user") /\ res.data.user # Null
                          THEN res.data.user ELSE auth[c].user,
                 loading |-> FALSE]
       IN  /\ auth' = [auth EXCEPT ![c] = a]
           /\ Routed(c, a, route[c], Finish(c, i)[c])
    /\ UNCHANGED <<serverVars, token, geo>>

\* POST /api/auth/login and /api/auth/register keep no state here either
AuthReplies(u) ==
    { Reply(200, [user |-> u, accessToken |-> TokenOf(u)]),
      ErrorReply(401, "Invalid credentials") }

\* the form of the auth page is submitted with the credentials of u
AuthPage_handleSubmit(c, u, res) ==
    /\ route[c] = "/login"
    /\ u \in Users
    /\ res \in AuthReplies(u)
    /\ InFlight(c, "login") < MaxAuthCalls
    /\ calls' = Issue(c, NewCallWithReply("login",
                    ApiRequest(c, <<"/api/auth/login">>, "POST", JsonHeaders,
                               Stringify([email |-> u.id])),
                    NoFields, res))
    /\ UNCHANGED <<serverVars, authVars, geo, mine, home, form, dash>>

\* login(userData, token) of the auth context
login(c, userData, t) ==
    /\ token' = [token EXCEPT ![c] = t]
    /\ auth' = [auth EXCEPT ![c].user = userData]

\* handleSubmit after its await: setAuth(data.user, data.accessToken), or the error
AuthPage_done(c, i) ==
    /\ Replied(c, i, "login")
    /\ LET res == calls[c][i].res
       IN  IF ApiThrows(res)
           THEN /\ calls' = Finish(c, i)
                /\ UNCHANGED <<authVars, home, form, dash, mine>>
           ELSE /\ login(c, Field(res.data, "user"), res.data.accessToken)
                /\ Routed(c, auth'[c], route[c], Finish(c, i)[c])
    /\ UNCHANGED <<serverVars, geo>>

\* the Logout button of Nav
logout(c) ==
    /\ auth[c].user # Null
    /\ token' = [token EXCEPT ![c] = NoToken]
    /\ auth' = [auth EXCEPT ![c].user = Null]
    /\ Routed(c, auth'[c], route[c], calls[c])
    /\ UNCHANGED <<serverVars, geo>>

\* the links Nav shows
NavLinks(a) ==
    {"/"} \cup (IF a.user # Null THEN {"/my-complaints"} ELSE {"/login"})
          \cup (IF isAdmin(a.user) THEN {"/admin"} ELSE {})

\* a <Link> of Nav is clicked
Nav_Link(c, r) ==
    /\ r \in NavLinks(auth[c])
    /\ r # route[c]
    /\ Routed(c, auth[c], r, calls[c])
    /\ UNCHANGED <<serverVars, token, auth, geo>>

\* another tab of the same browser logs in or out: localStorage is shared
StorageChange(c, t) ==
    /\ t \in Tokens \cup {NoToken}
    /\ t # token[c]
    /\ token' = [token EXCEPT ![c] = t]
    /\ UNCHANGED <<serverVars, auth, route, geo, mine, home, form, dash, calls>>

(***************************************************************************)
(* Specification of the complaint workflow: an admin works on a loaded     *)
(* dashboard while a rider files complaints from another browser.          *)
(***************************************************************************)
\* the form the complaint present at the start was submitted from
FiledForm ==
    [InitForm EXCEPT !.image = "fire.jpg", !.location = ResolvedLocation(28, 77, 10),
                     !.trainDetails = ExtractedDetails("ticketA.png")]
\* the form the rider is about to submit
ReadyForm ==
    [InitForm EXCEPT !.image = "toilet.jpg", !.imagePreview = DataUrl("toilet.jpg")]
\* the complaints filed before the dashboard was opened
FiledStore ==
    << NewComplaint(BuildFormData(FiledForm), UserOf("rita"), 1, 1),
       NewComplaint(BuildFormData(ReadyForm), Null, 2, 2) >>
LoadedDash(st) ==
    [InitDash EXCEPT !.complaints = ListAdmin(st, NoFilter), !.mapPoints = MapPoints(st),
                     !.insights = Insights(st), !.loading = FALSE]

InitWorkflow ==
    /\ store = FiledStore
    /\ nextId = Len(FiledStore) + 1
    /\ clock = Len(FiledStore) + 1
    /\ token = [c \in Clients |-> IF c = "c1" THEN "ada" ELSE "rita"]
    /\ auth = [c \in Clients |-> [user |-> UserOf(token[c]), loading |-> FALSE]]
    /\ route = [c \in Clients |-> IF c = "c1" THEN "/admin" ELSE "/"]
    /\ geo = [c \in Clients |-> TRUE]
    /\ home = [c \in Clients |-> InitHome]
    /\ form = [c \in Clients |-> IF c = "c2" THEN ReadyForm ELSE InitForm]
    /\ dash = [c \in Clients |-> IF c = "c1" THEN LoadedDash(store) ELSE InitDash]
    /\ mine = [c \in Clients |-> InitMine]
    /\ calls = [c \in Clients |-> <<>>]

DashNext(c, ids, texts) ==
    \/ \E id \in ids, n \in DOMAIN STATUS_OPTIONS :
          handleStatusChange(c, id, STATUS_OPTIONS[n])
    \/ \E i \in 1..Len(calls[c]) : handleStatusChange_done(c, i)
    \/ \E id \in ids, text \in texts : setAssignDeptByComplaint(c, id, text)
    \/ \E id \in ids, by \in {"click", "Enter"} : handleAssign(c, id, by)
    \/ \E i \in 1..Len(calls[c]) : handleAssign_done(c, i)
    \/ \E i \in 1..Len(calls[c]) : ServeSetStatus(c, i)
    \/ \E i \in 1..Len(calls[c]) : ServeAssign(c, i)

\* the admin works on the first card of the loaded list
NextWorkflow ==
    \/ DashNext("c1", {FiledStore[1].complaintId}, DeptInputs)
    \/ handleSubmit("c2")
    \/ \E i \in 1..Len(calls["c2"]) : ServeSubmit("c2", i)
    \/ \E i \in 1..Len(calls["c2"]) : handleSubmit_done("c2", i)
SpecWorkflow == InitWorkflow /\ [][NextWorkflow]_vars

(***************************************************************************)
(* Specification of the filtered list: an admin sets the filter form,      *)
(* reloads the list and changes the status of the complaints shown.        *)
(***************************************************************************)
FilterStore ==
    FiledStore \o
    << NewComplaint(BuildFormData([InitForm EXCEPT
                                      !.image = "fire.jpg",
                                      !.trainDetails = ExtractedDetails("ticketB.pdf")]),
                    UserOf("rita"), 3, 3) >>
InitFilter ==
    /\ store = FilterStore
    /\ nextId = Len(FilterStore) + 1
    /\ clock = Len(FilterStore) + 1
    /\ token = [c \in Clients |-> IF c = "c1" THEN "ada" ELSE NoToken]
    /\ auth = [c \in Clients |->
                 [user |-> IF c = "c1" THEN UserOf("ada") ELSE Null, loading |-> FALSE]]
    /\ route = [c \in Clients |-> IF c = "c1" THEN "/admin" ELSE "/"]
    /\ geo = [c \in Clients |-> TRUE]
    /\ home = [c \in Clients |-> InitHome]
    /\ form = [c \in Clients |-> InitForm]
    /\ dash = [c \in Clients |-> IF c = "c1" THEN LoadedDash(store) ELSE InitDash]
    /\ mine = [c \in Clients |-> InitMine]
    /\ calls = [c \in Clients |-> <<>>]

\* the admin waits for the answer before touching the form or a card again
Quiet(c) == DashInFlight(c) = 0

NextFilter ==
    \/ Quiet("c1") /\ \E field \in DOMAIN FilterInputs : \E value \in FilterInputs[field] :
                          setFilter("c1", field, value)
    \/ Quiet("c1") /\ handleFilter("c1")
    \/ \E i \in 1..Len(calls["c1"]) : ServeAdminComplaints("c1", i)
    \/ \E i \in 1..Len(calls["c1"]) : loadComplaints_done("c1", i)
    \/ Quiet("c1") /\ \E id \in {FilterStore[1].complaintId, FilterStore[2].complaintId} :
                          handleStatusChange("c1", id, "resolved")
    \/ \E i \in 1..Len(calls["c1"]) : ServeSetStatus("c1", i)
    \/ \E i \in 1..Len(calls["c1"]) : handleStatusChange_done("c1", i)
SpecFilter == InitFilter /\ [][NextFilter]_vars

(***************************************************************************)
(* Specification of access to the workflow: one browser in which users log *)
(* in and out, pages are opened and the dashboard is used, while another   *)
(* tab of the browser may change the stored token.                         *)
(***************************************************************************)
InitAccess ==
    /\ store = FiledStore
    /\ nextId = Len(FiledStore) + 1
    /\ clock = Len(FiledStore) + 1
    /\ token = [c \in Clients |-> NoToken]
    /\ auth = [c \in Clients |-> [user |-> Null, loading |-> FALSE]]
    /\ route = [c \in Clients |-> IF c = "c1" THEN "/login" ELSE "/"]
    /\ geo = [c \in Clients |-> TRUE]
    /\ home = [c \in Clients |-> InitHome]
    /\ form = [c \in Clients |-> InitForm]
    /\ dash = [c \in Clients |-> InitDash]
    /\ mine = [c \in Clients |-> InitMine]
    /\ calls = [c \in Clients |-> <<>>]

\* the loads of the map and of the insights: nothing else reads what they bring
SideLoads(c) ==
    \/ \E i \in 1..Len(calls[c]) : ServeAdminMap(c, i)
    \/ \E i \in 1..Len(calls[c]) : ServeAdminInsights(c, i)
    \/ \E i \in 1..Len(calls[c]) : loadMap_done(c, i)
    \/ \E i \in 1..Len(calls[c]) : loadInsights_done(c, i)
Settled(c) == \A i \in 1..Len(calls[c]) : calls[c][i].kind \notin {"map", "insights"}

\* what happens in one tab: pages are loaded and left, users sign in and out
SessionNext(c, users, routes) ==
    \/ Settled(c) /\ \E r \in routes : \E res \in MeReplies(token[c]) : PageLoad(c, r, res)
    \/ Settled(c) /\ \E i \in 1..Len(calls[c]) : AuthProvider_me(c, i)
    \/ Settled(c) /\ \E u \in users : \E res \in {x \in AuthReplies(u) : x.ok} :
                        AuthPage_handleSubmit(c, u, res)
    \/ Settled(c) /\ \E i \in 1..Len(calls[c]) : AuthPage_done(c, i)
    \/ Settled(c) /\ logout(c)
    \/ Settled(c) /\ \E r \in routes : Nav_Link(c, r)

AuthNext(c, users) ==
    \/ SessionNext(c, users, Routes \ {"/my-complaints"})
    \/ Settled(c) /\ \E u \in users : StorageChange(c, TokenOf(u))

\* the user of the dashboard waits for the answer before the next request
Idle(c) == \A i \in 1..Len(calls[c]) : calls[c][i].kind \notin {"setStatus", "assign"}

\* A rider and an admin share the browser and type the right credentials; the admin
\* resolves the first complaint and hands it to another department, one request at
\* a time.  The loads of the map
\* and of the insights are taken to settle before anything else happens.
NextAccess ==
    \/ SideLoads("c1")
    \/ AuthNext("c1", {UserOf("rita"), UserOf("ada")})
    \/ Settled("c1") /\ \E i \in 1..Len(calls["c1"]) : ServeAdminComplaints("c1", i)
    \/ Settled("c1") /\ \E i \in 1..Len(calls["c1"]) : loadComplaints_done("c1", i)
    \/ Settled("c1") /\ Idle("c1")
          /\ handleStatusChange("c1", FiledStore[1].complaintId, "resolved")
    \/ Settled("c1") /\ \E i \in 1..Len(calls["c1"]) : handleStatusChange_done("c1", i)
    \/ Settled("c1")
          /\ setAssignDeptByComplaint("c1", FiledStore[1].complaintId, <<" ", "E", "M">>)
    \/ Settled("c1") /\ Idle("c1")
          /\ handleAssign("c1", FiledStore[1].complaintId, "click")
    \/ Settled("c1") /\ \E i \in 1..Len(calls["c1"]) : handleAssign_done("c1", i)
    \/ Settled("c1") /\ \E i \in 1..Len(calls["c1"]) : ServeSetStatus("c1", i)
    \/ Settled("c1") /\ \E i \in 1..Len(calls["c1"]) : ServeAssign("c1", i)
SpecAccess == InitAccess /\ [][NextAccess]_vars

(***************************************************************************)
(* Specification of a session: one tab in which a rider and an admin sign  *)
(* in and out and open the pages, protected ones included, while another   *)
(* tab of the browser may change or remove the stored token.               *)
(***************************************************************************)
InitSession == InitAccess

NextSession ==
    \/ SideLoads("c1")
    \/ SessionNext("c1", {UserOf("rita"), UserOf("ada")}, Routes)
    \/ Settled("c1") /\ \E t \in Tokens \cup {NoToken} : StorageChange("c1", t)
    \/ Settled("c1") /\ \E i \in 1..Len(calls["c1"]) : ServeAdminComplaints("c1", i)
    \/ Settled("c1") /\ \E i \in 1..Len(calls["c1"]) : loadComplaints_done("c1", i)
    \/ Settled("c1") /\ \E i \in 1..Len(calls["c1"]) : ServeMyComplaints("c1", i)
    \/ Settled("c1") /\ \E i \in 1..Len(calls["c1"]) : MyComplaints_done("c1", i)
SpecSession == InitSession /\ [][NextSession]_vars

(***************************************************************************)
(* Specification of the auth context alone: one tab, no other tab touches  *)
(* the stored token.                                                       *)
(***************************************************************************)
InitAuth == InitAccess

NextAuth ==
    \/ SessionNext("c1", {UserOf("rita"), UserOf("ada")}, {"/", "/login", "/my-complaints"})
    \/ \E i \in 1..Len(calls["c1"]) : ServeMyComplaints("c1", i)
    \/ \E i \in 1..Len(calls["c1"]) : MyComplaints_done("c1", i)
SpecAuth == InitAuth /\ [][NextAuth]_vars

(***************************************************************************)
(* Properties of the complaint intake.                                     *)
(***************************************************************************)
ClassificationFailed(res) ==
    res.net /\ ~res.ok /\ Has(res.data, "error") /\ res.data.error = "ClassificationFailure"
\* this step puts the reply of call i of browser c in place
Answered(c, i, kind) ==
    /\ Pending(c, i, kind)
    /\ Len(calls'[c]) = Len(calls[c])
    /\ calls'[c][i].st = "done"
\* this step runs the continuation of call i of browser c
Completed(c, i, kind) ==
    /\ Replied(c, i, kind)
    /\ ~calls[c][i].orphan
    /\ calls'[c] = RemoveAt(calls[c], i)
\* this step is handleSubmit of browser c issuing its request
Submitted(c) == ~form[c].submitting /\ form'[c].submitting
SubmitCall(cs) == cs[CHOOSE j \in 1..Len(cs) : cs[j].kind = "submit" /\ ~cs[j].orphan]
Populated(x) ==
    /\ Truthy(x.issueCategory)
    /\ Truthy(x.priority)
    /\ x.department # <<>>
    /\ x.status = "pending"

\* C1: when the classification of a submission fails, the store is left as it was
\* and the submitting page ends with an error message and no complaint shown.
C1_ClassificationFailureIsFatal ==
    [][\A c \in Clients : \A i \in 1..Len(calls[c]) :
          /\ (Answered(c, i, "submit") /\ ClassificationFailed(calls'[c][i].res))
                => UNCHANGED serverVars
          /\ (Completed(c, i, "submit") /\ ClassificationFailed(calls[c][i].res))
                => /\ home'[c].complaint = Null
                   /\ Truthy(home'[c].error)
                   /\ ~form'[c].submitting]_vars

C1_Witness ==
    \E c \in Clients :
       /\ home[c].error = "ClassificationFailure"
       /\ home[c].complaint = Null
       /\ Truthy(form[c].image)
       /\ ~form[c].submitting
       /\ store = <<>>

\* C2: a submission with an image whose classification does not fail persists
\* exactly one complaint, populated and pending, and nothing else adds to the store.
C2_OneComplaintPerSubmission ==
    [][/\ \A c \in Clients : \A i \in 1..Len(calls[c]) :
            (/\ Answered(c, i, "submit")
             /\ Truthy(calls[c][i].ctx.image)
             /\ calls'[c][i].res.net
             /\ ~ClassificationFailed(calls'[c][i].res))
            => LET res == calls'[c][i].res
               IN  /\ res.ok
                   /\ Has(res.data, "complaint")
                   /\ store' = Append(store, res.data.complaint)
                   /\ Populated(res.data.complaint)
       /\ store' # store
            => /\ Len(store') = Len(store) + 1
               /\ SubSeq(store', 1, Len(store)) = store
               /\ \E c \in Clients : \E i \in 1..Len(calls[c]) : Answered(c, i, "submit")
       /\ \A c \in Clients : Submitted(c) => InFlight(c, "submit")' = 1]_vars

C2_Witness ==
    \E c \in Clients :
       /\ ResultShown(c)
       /\ Len(store) = 1
       /\ home[c].complaint = store[1]
       /\ Populated(store[1])

\* C3: a failed ticket extraction clears the train details and blocks nothing: the
\* submit button stays as it was, the request goes out without train_details and
\* the complaint is created without trainDetails.
C3_ExtractionFailureNotFatal ==
    [][\A c \in Clients :
          /\ \A i \in 1..Len(calls[c]) :
                /\ (Completed(c, i, "extract") /\ ApiThrows(calls[c][i].res))
                      => /\ form'[c].trainDetails = Null
                         /\ SubmitDisabled(form'[c]) = SubmitDisabled(form[c])
                         /\ home' = home
                /\ (Answered(c, i, "submit") /\ calls'[c][i].res.ok
                    /\ ~Has(calls[c][i].req.body, "train_details"))
                      => /\ calls'[c][i].res.data.complaint.trainDetails = Null
                         /\ store' = Append(store, calls'[c][i].res.data.complaint)
          /\ (FormMounted(c) /\ Truthy(form[c].ticketError) /\ Truthy(form[c].image)
              /\ ~form[c].submitting) => ~SubmitDisabled(form[c])
          /\ (Submitted(c) /\ form[c].trainDetails = Null)
                => /\ Has(SubmitCall(calls'[c]).req.body, "image")
                   /\ ~Has(SubmitCall(calls'[c]).req.body, "train_details")]_vars

C3_Witness ==
    \E c \in Clients : \E i \in 1..Len(calls[c]) :
       /\ Truthy(form[c].ticketError)
       /\ form[c].ticketFile # NoFile
       /\ form[c].trainDetails = Null
       /\ Replied(c, i, "submit")
       /\ calls[c][i].res.ok
       /\ calls[c][i].res.data.complaint.trainDetails = Null
       /\ store = <<calls[c][i].res.data.complaint>>

\* C4: when resolveLocation fails the form keeps the raw latitude, longitude and
\* accuracy without a station, a submit sends them, and no state of the location
\* capture disables the submit button.
C4_LocationFailsSoftly ==
    [][\A c \in Clients :
          /\ \A i \in 1..Len(calls[c]) :
                (Completed(c, i, "resolve") /\ ApiThrows(calls[c][i].res))
                   => /\ form'[c].location =
                            [latitude |-> calls[c][i].ctx.coords.latitude,
                             longitude |-> calls[c][i].ctx.coords.longitude,
                             accuracyM |-> calls[c][i].ctx.coords.accuracy]
                      /\ ~form'[c].locationLoading
                      /\ SubmitDisabled(form'[c]) = SubmitDisabled(form[c])
                      /\ home' = home
          /\ (FormMounted(c) /\ Truthy(form[c].image) /\ ~form[c].submitting)
                => ~SubmitDisabled(form[c])
          /\ (Submitted(c) /\ form[c].location # Null)
                => LET body == SubmitCall(calls'[c]).req.body
                   IN  /\ Has(body, "latitude") /\ Has(body, "longitude")
                       /\ Has(body, "accuracy_m")
                       /\ ParseNum(body.latitude) = form[c].location.latitude
                       /\ ParseNum(body.longitude) = form[c].location.longitude
                       /\ ParseNum(body.accuracy_m) = form[c].location.accuracyM]_vars

C4_Witness ==
    \E c \in Clients : \E i \in 1..Len(calls[c]) :
       /\ form[c].locationError = "Could not resolve railway context."
       /\ form[c].location # Null
       /\ ~Has(form[c].location, "nearestStation")
       /\ calls[c][i].kind = "submit"
       /\ Has(calls[c][i].req.body, "latitude")
       /\ ParseNum(calls[c][i].req.body.latitude) = form[c].location.latitude

(***************************************************************************)
(* Properties of the complaint workflow.                                   *)
(***************************************************************************)
Blank(s) == Trim(s) = <<>>
\* the assign requests of a browser for one complaint
AssignCalls(cs, complaintId) ==
    {i \in 1..Len(cs) : cs[i].kind = "assign" /\ cs[i].ctx.complaintId = complaintId}
Shown(c) == {dash[c].complaints[j].complaintId : j \in 1..Len(dash[c].complaints)}
\* what a setStatus or assign request asks for
Requested(k) == ParseJson(k.req.body)
\* the fields of a complaint that are fixed at creation
Created(k) ==
    [complaintId |-> k.complaintId, priority |-> k.priority,
     issueCategory |-> k.issueCategory, issueDetails |-> k.issueDetails,
     location |-> k.location, trainDetails |-> k.trainDetails,
     ownerUserId |-> k.ownerUserId, createdAt |-> k.createdAt]

\* C6: while the department typed for a complaint is empty or whitespace-only, neither
\* the Assign button nor the Enter key sends an assign request or marks the complaint
\* as being assigned; no assign request carries a blank department and no stored
\* department changes to anything but the department of an assign request.
C6_BlankAssignIsNoOp ==
    [][/\ \A c \in Clients : \A id \in Shown(c) :
             Blank(DeptInput(dash[c], id))
                => /\ Cardinality(AssignCalls(calls'[c], id))
                         <= Cardinality(AssignCalls(calls[c], id))
                   /\ dash'[c].assigning = id => dash[c].assigning = id
       /\ \A c \in Clients : \A i \in 1..Len(calls'[c]) :
             calls'[c][i].kind = "assign" => ~Blank(Requested(calls'[c][i]).department)
       /\ \A j \in 1..Len(store) :
             store'[j].department # store[j].department
                => /\ ~Blank(store'[j].department)
                   /\ \E c \in Clients : \E i \in 1..Len(calls[c]) :
                         /\ Answered(c, i, "assign")
                         /\ store'[j].department = Requested(calls[c][i]).department]_vars

C6_Witness ==
    \E c \in Clients : \E id \in Shown(c) :
       /\ CardsShown(c)
       /\ DeptInput(dash[c], id) = <<" ">>
       /\ AssignDisabled(dash[c], id)
       /\ dash[c].assigning = NoId
       /\ calls[c] = <<>>
       /\ store[IndexOf(store, id)].department = FiledStore[1].department

\* C7: a successful setStatus changes the status of its complaint in the store and
\* nothing else there, and returns that complaint; when the dashboard takes the
\* response, its list keeps its length and order, the other cards are as they were,
\* and the card of the complaint takes the returned status while each other field of
\* it stays what the card showed.  The check is of the weaker statement that such a
\* field stays what the card showed or becomes what the store holds.
C7_SetStatusChangesStatusOnly ==
    [][\A c \in Clients : \A i \in 1..Len(calls[c]) :
          /\ (Answered(c, i, "setStatus") /\ calls'[c][i].res.ok)
                => LET j == IndexOf(store, calls[c][i].ctx.complaintId)
                   IN  /\ j # 0
                       /\ store' = [store EXCEPT
                                       ![j].status = Requested(calls[c][i]).status]
                       /\ calls'[c][i].res.data = Put("complaint", store'[j])
          /\ (Completed(c, i, "setStatus") /\ calls[c][i].res.ok)
                => LET id == calls[c][i].ctx.complaintId
                       old == dash[c].complaints
                       new == dash'[c].complaints
                   IN  /\ Len(new) = Len(old)
                       /\ \A j \in 1..Len(old) :
                             IF old[j].complaintId # id THEN new[j] = old[j]
                             ELSE /\ DOMAIN new[j] = DOMAIN old[j]
                                  /\ new[j].status = calls[c][i].res.data.complaint.status
                                  /\ \A fld \in DOMAIN old[j] \ {"status"} :
                                        \/ new[j][fld] = old[j][fld]
                                        \/ new[j][fld] = store[IndexOf(store, id)][fld]]_vars

\* C8: every stored status is pending, in_progress or resolved, a complaint added to
\* the store is pending, every setStatus request asks for one of the three, and a
\* setStatus request of an admin or department user for a stored complaint is
\* carried out whatever the status of the complaint is.
C8_StatusOneOfThree ==
    [][/\ \A j \in 1..Len(store') :
             /\ store'[j].status \in {"pending", "in_progress", "resolved"}
             /\ j > Len(store) => store'[j].status = "pending"
       /\ \A c \in Clients : \A i \in 1..Len(calls'[c]) :
             calls'[c][i].kind = "setStatus"
                => Requested(calls'[c][i]).status \in {"pending", "in_progress", "resolved"}
       /\ \A c \in Clients : \A i \in 1..Len(calls[c]) :
             (/\ Answered(c, i, "setStatus")
              /\ calls'[c][i].res.net
              /\ Principal(calls[c][i].req) # Null
              /\ Principal(calls[c][i].req).role \in {"admin", "department"}
              /\ IndexOf(store, calls[c][i].ctx.complaintId) # 0)
                => /\ calls'[c][i].res.ok
                   /\ store'[IndexOf(store, calls[c][i].ctx.complaintId)].status
                         = Requested(calls[c][i]).status]_vars

\* a resolved complaint has been set back to pending
C8_Witness ==
    \E c \in Clients : \E i \in 1..Len(calls[c]) :
       /\ Replied(c, i, "setStatus")
       /\ calls[c][i].res.ok
       /\ calls[c][i].res.data.complaint.status = "pending"
       /\ dash[c].complaints[Card(c, calls[c][i].ctx.complaintId)].status = "resolved"
       /\ store[IndexOf(store, calls[c][i].ctx.complaintId)].status = "pending"
       /\ Len(calls[c]) = 1
       /\ Len(store) > Len(FiledStore)
       /\ store[Len(store)].status = "pending"

\* C9: no step removes a complaint from the store or moves it, and no step changes
\* a field of a stored complaint other than status and department.
C9_CreatedFieldsAreKept ==
    [][/\ Len(store') >= Len(store)
       /\ \A j \in 1..Len(store) : Created(store'[j]) = Created(store[j])]_vars

C9_Witness ==
    /\ Len(store) > Len(FiledStore)
    /\ store[1].status = "resolved"
    /\ store[1].department = <<"E", "M">>
    /\ Created(store[1]) = Created(FiledStore[1])
    /\ store[Len(store)].createdAt >= Len(store)
    /\ \A c \in Clients : calls[c] = <<>>

\* C10: no two complaints of the store have the same complaintId.
C10_ComplaintIdUnique ==
    \A j, k \in 1..Len(store) : store[j].complaintId = store[k].complaintId => j = k

\* two submissions of different users that were in flight together
C10_Witness ==
    \E i \in 1..Len(calls["c1"]), k \in 1..Len(calls["c2"]) :
       /\ Replied("c1", i, "submit") /\ calls["c1"][i].res.ok
       /\ Replied("c2", k, "submit") /\ calls["c2"][k].res.ok
       /\ calls["c1"][i].res.data.complaint.ownerUserId
             # calls["c2"][k].res.data.complaint.ownerUserId
       /\ \E j, m \in 1..Len(store) :
             /\ j # m
             /\ store[j] = calls["c1"][i].res.data.complaint
             /\ store[m] = calls["c2"][k].res.data.complaint

(***************************************************************************)
(* Properties of the access to the workflow.                               *)
(***************************************************************************)
Staff(u) == u # Null /\ u.role \in {"admin", "department"}
WorkflowCalls(cs) == {i \in 1..Len(cs) : cs[i].kind \in {"setStatus", "assign"}}

\* C5: a setStatus or assign request that carries the token of a user who is neither
\* admin nor department is answered 403 Forbidden and leaves the store as it is;
\* the store changes only when such a request of an admin or department user is
\* answered; the dashboard is on screen only for a signed-in admin or department
\* user, and only then does the browser send a setStatus or assign request.
C5_OnlyStaffChangeComplaints ==
    [][/\ \A c \in Clients : \A i \in 1..Len(calls[c]) :
             (/\ Answered(c, i, "setStatus") \/ Answered(c, i, "assign")
              /\ calls'[c][i].res.net
              /\ Principal(calls[c][i].req) # Null
              /\ ~Staff(Principal(calls[c][i].req)))
                => /\ calls'[c][i].res = ErrorReply(403, "Forbidden")
                   /\ store' = store
       /\ store' # store
             => \E c \in Clients : \E i \in 1..Len(calls[c]) :
                   /\ Answered(c, i, "setStatus") \/ Answered(c, i, "assign")
                   /\ Staff(Principal(calls[c][i].req))
       /\ \A c \in Clients :
             /\ DashMounted(c)' => Staff(auth'[c].user)
             /\ Cardinality(WorkflowCalls(calls'[c])) > Cardinality(WorkflowCalls(calls[c]))
                   => Staff(auth[c].user) /\ DashMounted(c)]_vars

\* the dashboard of an admin sent a request with the token of a rider, and it was
\* refused
C5_Witness ==
    \E c \in Clients : \E i \in 1..Len(calls[c]) :
       /\ Replied(c, i, "setStatus")
       /\ Principal(calls[c][i].req) = UserOf("rita")
       /\ calls[c][i].res = ErrorReply(403, "Forbidden")
       /\ DashMounted(c)
       /\ auth[c].user = UserOf("ada")
       /\ store = FiledStore

(***************************************************************************)
(* Properties of the queries and of the views that show them.              *)
(***************************************************************************)
OwnedBy(st, userId) == {j \in 1..Len(st) : st[j].ownerUserId = userId}

\* C11: a listOwn request of user u is answered with the complaints of the store
\* whose ownerUserId is u and no others (the empty list when u owns none), and once
\* the answer arrived the My Complaints page shows exactly the list of the answer.
C11_OwnComplaintsOnly ==
    [][\A c \in Clients : \A i \in 1..Len(calls[c]) :
          /\ (ServeMyComplaints(c, i) /\ calls'[c][i].res.ok)
                => LET u == Principal(calls[c][i].req)
                       got == calls'[c][i].res.data.complaints
                   IN  /\ u # Null
                       /\ \A j \in 1..Len(got) : got[j].ownerUserId = u.id
                       /\ got = [j \in 1..Len(got) |->
                                    store[CHOOSE n \in OwnedBy(store, u.id) :
                                        Cardinality({m \in OwnedBy(store, u.id) : m <= n}) = j]]
                       /\ Len(got) = Cardinality(OwnedBy(store, u.id))
          /\ (MyComplaints_done(c, i) /\ calls[c][i].res.ok)
                => MineView(mine'[c]) =
                      [shows |-> "list", complaints |-> calls[c][i].res.data.complaints]]_vars

\* the page of rita shows her one complaint of the two in the store
C11_Witness ==
    \E c \in Clients :
       /\ MineMounted(c)
       /\ auth[c].user = UserOf("rita")
       /\ MineView(mine[c]).shows = "list"
       /\ Len(mine[c].complaints) = 1
       /\ mine[c].complaints[1].ownerUserId = "rita"
       /\ Len(store) = 2
       /\ \E j \in 1..Len(store) : store[j].ownerUserId # "rita"

\* the fields of the filter q that are provided, and what each asks of complaint k
Provided(q) == {f \in DOMAIN q : q[f] # ""}
Satisfies(k, f, v) ==
    CASE f = "station" ->
            k.location # Null /\ (k.location.nearestStation = v
                                     \/ <<v, k.location.nearestStation>> \in Fragments)
      [] f = "train_number" -> k.trainDetails # Null /\ k.trainDetails.trainNumber = v
      [] f = "issue_type" -> k.issueCategory = v
      [] f = "status" -> k.status = v
ListCalls(cs) == {i \in 1..Len(cs) : cs[i].kind = "list"}

C13_LastWriteWinsPerField ==
    [][/\ \A c \in Clients : \A i \in 1..Len(calls[c]) :
             /\ calls[c][i].kind = "setStatus"
                   => DOMAIN ParseJson(calls[c][i].req.body) = {"status"}
             /\ calls[c][i].kind = "assign"
                   => DOMAIN ParseJson(calls[c][i].req.body) = {"department"}
             /\ (ServeSetStatus(c, i) /\ calls'[c][i].res.ok)
                   => LET j == IndexOf(store, calls[c][i].req.path[2])
                      IN  /\ store'[j].status = ParseJson(calls[c][i].req.body).status
                          /\ store'[j].department = store[j].department
             /\ (ServeAssign(c, i) /\ calls'[c][i].res.ok)
                   => LET j == IndexOf(store, calls[c][i].req.path[2])
                      IN  /\ store'[j].department = ParseJson(calls[c][i].req.body).department
                          /\ store'[j].status = store[j].status
       /\ \A j \in 1..Len(store) :
             /\ store'[j].status # store[j].status
                   => \E c \in Clients : \E i \in 1..Len(calls[c]) :
                         /\ ServeSetStatus(c, i)
                         /\ calls[c][i].req.path[2] = store[j].complaintId
             /\ store'[j].department # store[j].department
                   => \E c \in Clients : \E i \in 1..Len(calls[c]) :
                         /\ ServeAssign(c, i)
                         /\ calls[c][i].req.path[2] = store[j].complaintId]_vars

\* a setStatus and an assign of the same complaint were in flight together, the
\* setStatus was applied first, and the store holds what each of them wrote
C13_Witness ==
    \E c \in Clients : \E i, k \in 1..Len(calls[c]) :
       /\ Replied(c, i, "setStatus") /\ calls[c][i].res.ok
       /\ Replied(c, k, "assign") /\ calls[c][k].res.ok
       /\ calls[c][i].req.path[2] = calls[c][k].req.path[2]
       /\ calls[c][i].res.data.complaint.department = FiledStore[1].department
       /\ calls[c][k].res.data.complaint.status = "resolved"
       /\ store[1].status = "resolved"
       /\ store[1].department = <<"E", "M">>

(***************************************************************************)
(* Properties of the session.                                              *)
(***************************************************************************)
Copies(cs, call) == Cardinality({k \in 1..Len(cs) : cs[k] = call})
\* the requests that this step sends through api()
Sent(c) ==
    {i \in 1..Len(calls'[c]) :
        /\ calls'[c][i].kind # "me"
        /\ calls'[c][i].st = "sent" \/ calls'[c][i].kind = "login"
        /\ ~calls'[c][i].orphan
        /\ Copies(calls'[c], calls'[c][i]) > Copies(calls[c], calls'[c][i])}
ProtectedKinds == {"my", "list", "map", "insights", "setStatus", "assign"}
AdminKinds == ProtectedKinds \ {"my"}
\* this step answers request i of browser c
Served(c, i) ==
    /\ i \in 1..Len(calls[c]) /\ calls[c][i].st = "sent"
    /\ Len(calls'[c]) = Len(calls[c])
    /\ calls'[c][i] = [calls[c][i] EXCEPT !.st = "done", !.res = calls'[c][i].res]
    /\ calls'[c][i].res.net

\* C14: a request sent through api() while a token is stored has the header
\* Authorization: Bearer <that token> next to the headers of its caller, and has no
\* Authorization header while none is stored; a request to a protected route that
\* has no Authorization header is answered 401, and a request to an admin route
\* with the token of a user who is neither admin nor department is answered 403.
C14_BearerTokenOnRequests ==
    [][\A c \in Clients :
          /\ \A i \in Sent(c) :
                LET headers == calls'[c][i].req.headers
                IN  /\ Truthy(token[c])
                          => /\ Has(headers, "Authorization")
                             /\ headers["Authorization"] = Bearer(token[c])
                    /\ ~Truthy(token[c]) => ~Has(headers, "Authorization")
                    /\ calls'[c][i].req.method = "PATCH"
                          => /\ Has(headers, "Content-Type")
                             /\ headers["Content-Type"] = "application/json"
          /\ \A i \in 1..Len(calls[c]) :
                (Served(c, i) /\ calls[c][i].kind \in ProtectedKinds)
                   => LET headers == calls[c][i].req.headers
                          res == calls'[c][i].res
                      IN  /\ ~Has(headers, "Authorization") => res.code = 401
                          /\ (/\ calls[c][i].kind \in AdminKinds
                               /\ Has(headers, "Authorization")
                               /\ headers["Authorization"][2] \in Tokens
                               /\ UserOf(headers["Authorization"][2]).role
                                     \notin {"admin", "department"})
                                => res.code = 403]_vars

\* the dashboard of an admin was opened after another tab had signed out: its
\* request went out without an Authorization header and was answered 401
C14_Witness ==
    \E c \in Clients : \E i \in 1..Len(calls[c]) :
       /\ Replied(c, i, "list")
       /\ ~Has(calls[c][i].req.headers, "Authorization")
       /\ calls[c][i].res.code = 401
       /\ auth[c].user = UserOf("ada")
       /\ token[c] = NoToken

(***************************************************************************)
(* Properties of failures.                                                 *)
(***************************************************************************)
\* this step runs, in a mounted component, the continuation of a rejected request
Rejected(c, i) ==
    /\ i \in 1..Len(calls[c])
    /\ calls[c][i].st = "done"
    /\ ~calls[c][i].orphan
    /\ ApiThrows(calls[c][i].res)

\* C15: when the continuation of a rejected request has run, the state of the
\* component that sent it holds the failure: the home page its error after a
\* rejected submit, the form its ticketError or locationError after a rejected
\* extraction or resolution, My Complaints and the dashboard their error after a
\* rejected list, setStatus, assign, map or insights request.
C15_NoSilentFailure ==
    [][\A c \in Clients : \A i \in 1..Len(calls[c]) :
          Rejected(c, i)
             => /\ handleSubmit_done(c, i) => Truthy(home'[c].error)
                /\ handleTicketChange_done(c, i) => Truthy(form'[c].ticketError)
                /\ captureLocation_resolved(c, i) => Truthy(form'[c].locationError)
                /\ MyComplaints_done(c, i) => Truthy(mine'[c].error)
                /\ loadComplaints_done(c, i) => Truthy(dash'[c].error)
                /\ handleStatusChange_done(c, i) => Truthy(dash'[c].error)
                /\ handleAssign_done(c, i) => Truthy(dash'[c].error)
                /\ loadMap_done(c, i) => Truthy(dash'[c].error)
                /\ loadInsights_done(c, i) => Truthy(dash'[c].error)]_vars

(***************************************************************************)
(* Properties of the insights.                                             *)
(***************************************************************************)
RECURSIVE SumOf(_)
SumOf(counts) ==
    IF DOMAIN counts = {} THEN 0
    ELSE LET v == CHOOSE x \in DOMAIN counts : TRUE
         IN  counts[v] + SumOf([x \in DOMAIN counts \ {v} |-> counts[x]])
CountsOf(counts, st, field) ==
    /\ \A v \in DOMAIN counts :
          counts[v] = Cardinality({j \in 1..Len(st) : st[j][field] = v})
    /\ SumOf(counts) = Len(st)

\* C16: the answer of insights() to an admin holds three maps, byCategory, byStatus
\* and byPriority; in each the count of a key is the number of complaints of the
\* store with that value at the time of the call, so the counts of each map sum to
\* the number of complaints and byStatus counts the statuses as the setStatus
\* requests applied so far left them; the dashboard keeps the maps as answered.
C16_InsightsCountTheStore ==
    [][\A c \in Clients : \A i \in 1..Len(calls[c]) :
          /\ (ServeAdminInsights(c, i) /\ calls'[c][i].res.ok)
                => LET ins == calls'[c][i].res.data.insights
                   IN  /\ DOMAIN ins = {"byCategory", "byStatus", "byPriority"}
                       /\ CountsOf(ins.byCategory, store, "issueCategory")
                       /\ CountsOf(ins.byStatus, store, "status")
                       /\ CountsOf(ins.byPriority, store, "priority")
          /\ (loadInsights_done(c, i) /\ calls[c][i].res.ok /\ ~calls[c][i].orphan)
                => dash'[c].insights = calls[c][i].res.data.insights]_vars

\* the dashboard was opened again after a complaint had been resolved: its insights
\* count one resolved and one pending complaint
C16_Witness ==
    \E c \in Clients :
       /\ DashMounted(c)
       /\ dash[c].insights # Null
       /\ dash[c].insights.byStatus = ("resolved" :> 1) @@ ("pending" :> 1)
       /\ store[1].status = "resolved"
       /\ SumOf(dash[c].insights.byCategory) = Len(store)

(***************************************************************************)
(* Properties of the submit request.                                       *)
(***************************************************************************)
SubmitCalls(cs) == {i \in 1..Len(cs) : cs[i].kind = "submit"}

\* C17: a submit request goes out only from a form that holds an image; its body
\* holds that image, holds latitude and longitude (the coordinates of the form's
\* location) exactly when the form holds a location, and holds train_details (the
\* form's train details) exactly when the form holds train details.
C17_SubmitCarriesTheForm ==
    [][\A c \in Clients :
          Cardinality(SubmitCalls(calls'[c])) > Cardinality(SubmitCalls(calls[c]))
             => /\ Submitted(c)
                /\ Truthy(form[c].image)
                /\ LET fd == SubmitCall(calls'[c]).req.body
                       f == form[c]
                   IN  /\ Has(fd, "image") /\ fd.image = f.image
                       /\ Has(fd, "latitude") <=> f.location # Null
                       /\ Has(fd, "longitude") <=> f.location # Null
                       /\ f.location # Null
                             => /\ ParseNum(fd.latitude) = f.location.latitude
                                /\ ParseNum(fd.longitude) = f.location.longitude
                       /\ Has(fd, "train_details") <=> f.trainDetails # Null
                       /\ f.trainDetails # Null
                             => ParseJson(fd.train_details) = f.trainDetails]_vars

\* a request in flight with the raw coordinates of a position that could not be
\* resolved and without train details, from a form whose ticket could not be read
C17_Witness ==
    \E c \in Clients : \E i \in SubmitCalls(calls[c]) :
       LET fd == calls[c][i].req.body
       IN  /\ form[c].submitting
           /\ Has(fd, "latitude") /\ Has(fd, "longitude")
           /\ ~Has(fd, "train_details")
           /\ Truthy(form[c].ticketError)
           /\ Truthy(form[c].locationError)
           /\ form[c].location # Null
           /\ form[c].trainDetails = Null

(***************************************************************************)
(* Properties of the protected routes.                                     *)
(***************************************************************************)
Protected == {"/my-complaints", "/admin"}
\* the component is on screen: it has state or requests of its own
DashRendered(c) ==
    dash[c] # InitDash \/ \E i \in 1..Len(calls[c]) :
                            calls[c][i].kind \in DashKinds /\ ~calls[c][i].orphan
MineRendered(c) ==
    mine[c] # InitMine \/ \E i \in 1..Len(calls[c]) : calls[c][i].kind = "my"

\* C18: My Complaints is on screen only for a signed-in user and the dashboard only
\* for a signed-in admin or department user, neither while the identity check is
\* loading; a page loaded at a protected route with a stored token stays at that
\* route, loading, until /api/auth/me answered; when the check ends, or the user
\* signs out after it ended, a protected route without a user gives way to /login
\* and /admin with a user who is neither admin nor department to /.
C18_ProtectedRouteGuards ==
    [][\A c \in Clients :
          /\ MineRendered(c)'
                => /\ route'[c] = "/my-complaints"
                   /\ ~auth'[c].loading /\ auth'[c].user # Null
          /\ DashRendered(c)'
                => /\ route'[c] = "/admin"
                   /\ ~auth'[c].loading /\ Staff(auth'[c].user)
          /\ route'[c] \in Protected => auth'[c].loading \/ auth'[c].user # Null
          /\ route'[c] = "/admin" => auth'[c].loading \/ Staff(auth'[c].user)
          /\ \A r \in Protected :
                (Truthy(token[c]) /\ \E res \in MeReplies(token[c]) : PageLoad(c, r, res))
                   => /\ route'[c] = r /\ auth'[c].loading
                      /\ ~MineRendered(c)' /\ ~DashRendered(c)'
          /\ \A r \in Protected :
                (~Truthy(token[c]) /\ \E res \in MeReplies(token[c]) : PageLoad(c, r, res))
                   => route'[c] = "/login"
          /\ (route[c] \in Protected
                /\ (logout(c) \/ \E i \in 1..Len(calls[c]) : AuthProvider_me(c, i)))
                => route'[c] = IF auth'[c].loading THEN route[c]
                               ELSE IF auth'[c].user = Null THEN "/login"
                               ELSE IF route[c] = "/admin" /\ ~Staff(auth'[c].user) THEN "/"
                               ELSE route[c]]_vars

\* a page loaded at /admin with the token of a rider: the check is loading, the
\* route is still /admin and the dashboard is not on screen
C18_Witness ==
    \E c \in Clients :
       /\ route[c] = "/admin"
       /\ auth[c].loading
       /\ token[c] = "rita"
       /\ \E i \in 1..Len(calls[c]) : calls[c][i].kind = "me"
       /\ ~DashRendered(c)

(***************************************************************************)
(* Properties of the auth context.                                         *)
(***************************************************************************)
\* C19: whenever the auth context holds a user, a token is stored and it is the
\* token of that user.
C19_UserMatchesToken ==
    \A c \in Clients :
       auth[c].user # Null
          => /\ Truthy(token[c])
             /\ token[c] \in Tokens
             /\ UserOf(token[c]) = auth[c].user

(***************************************************************************)
(* Properties of overlapping ticket extractions.                           *)
(***************************************************************************)
\* C20: once no extraction is in flight, the train details of the form are null or
\* what the extraction of the ticket file selected last gives.
C20_DetailsOfLatestTicket ==
    \A c \in Clients :
       (/\ FormMounted(c)
        /\ InFlight(c, "extract") = 0
        /\ form[c].ticketFile # NoFile
        /\ form[c].trainDetails # Null)
          => form[c].trainDetails = ExtractedDetails(form[c].ticketFile)

\* C21: while an assign request for a complaint is in flight, the dashboard
\* issues no second assign request for the same complaint, by the Assign
\* button or by the Enter key: a browser never has two assign requests for one
\* complaint in flight.
C21_OneAssignInFlight ==
    \A c \in Clients : \A id \in Shown(c) :
        Cardinality(AssignCalls(calls[c], id)) <= 1

\* C22: when the dashboard is the only writer of status and department and
\* none of its setStatus or assign requests is in flight, every complaint shown
\* in the admin list has the status and the department the store holds for it,
\* whatever the order in which the responses of overlapping requests arrived.
C22_ListAgreesWithStore ==
    \A c \in Clients :
        (DashMounted(c) /\ WorkflowCalls(calls[c]) = {}) =>
            \A j \in 1..Len(dash[c].complaints) :
                LET shown == dash[c].complaints[j]
                    held == store[IndexOf(store, shown.complaintId)]
                IN  shown.status = held.status /\ shown.department = held.department

(***************************************************************************)
(* Properties of HomePage.                                                 *)
(***************************************************************************)
\* C23: in HomePage complaint and error are never both non-null.  A failed
\* submission sets error (to the reason) and clears complaint, a successful one
\* sets complaint (to the complaint of the response) and clears error, reset
\* clears both.  The result view is shown exactly when complaint is non-null
\* and the form otherwise: the form submits only while complaint is null, the
\* result's reset runs only while it is not, and nothing else changes the two.
C23_ComplaintXorError ==
    [][\A c \in Clients :
          /\ ~(home[c].complaint # Null /\ home[c].error # NoStr)
          /\ ~(home'[c].complaint # Null /\ home'[c].error # NoStr)
          /\ \A i \in 1..Len(calls[c]) :
                (handleSubmit_done(c, i) /\ ~calls[c][i].orphan) =>
                   IF ApiThrows(calls[c][i].res)
                   THEN /\ Truthy(home'[c].error)
                        /\ home'[c].error = ApiErrorMessage(calls[c][i].res)
                        /\ home'[c].complaint = Null
                   ELSE /\ home'[c].complaint # Null
                        /\ home'[c].complaint = calls[c][i].res.data.complaint
                        /\ home'[c].error = NoStr
          /\ HomePage_handleReset(c) => home'[c] = InitHome
          /\ Submitted(c) => FormMounted(c) /\ home[c].complaint = Null
          /\ home'[c] # home[c] =>
                \/ \E i \in 1..Len(calls[c]) :
                      handleSubmit_done(c, i) /\ ~calls[c][i].orphan
                \/ ResultShown(c) /\ home'[c] = InitHome]_vars

\* a successful response is about to be handled while the page still shows the
\* error of an earlier failed submission
C23_Witness ==
    \E c \in Clients : \E i \in 1..Len(calls[c]) :
       /\ Replied(c, i, "submit")
       /\ ~calls[c][i].orphan
       /\ calls[c][i].res.net /\ calls[c][i].res.ok
       /\ Truthy(home[c].error)
       /\ home[c].complaint = Null
       /\ \E d \in Clients : d # c /\ ResultShown(d) /\ home[d].error = NoStr

(***************************************************************************)
(* Specification of progress: one browser, opened either by an admin on    *)
(* the loaded dashboard or by a rider or an anonymous visitor on the       *)
(* complaint form, whose requests and callbacks all complete.              *)
(***************************************************************************)
Visitors == {"ada", "rita", NoToken}
VisitorOf(t) == IF t \in Tokens THEN UserOf(t) ELSE Null
DeskOf(t) == IF Staff(VisitorOf(t)) THEN "/admin" ELSE "/"
ProgressCards == {FiledStore[j].complaintId : j \in 1..Len(FiledStore)}
ProgressPosition == [latitude |-> 28, longitude |-> 77, accuracy |-> 10]

InitProgress ==
    /\ store = FiledStore
    /\ nextId = Len(FiledStore) + 1
    /\ clock = Len(FiledStore) + 1
    /\ token \in [Clients -> Visitors]
    /\ token["c2"] = NoToken
    /\ auth = [c \in Clients |-> [user |-> VisitorOf(token[c]), loading |-> FALSE]]
    /\ route = [c \in Clients |-> DeskOf(token[c])]
    /\ geo \in [Clients -> BOOLEAN]
    /\ geo["c2"]
    /\ token["c1"] # "rita" => geo["c1"]
    /\ home = [c \in Clients |-> InitHome]
    /\ form = [c \in Clients |-> InitForm]
    /\ dash = [c \in Clients |->
                  IF route[c] = "/admin" THEN LoadedDash(store) ELSE InitDash]
    /\ mine = [c \in Clients |-> InitMine]
    /\ calls = [c \in Clients |-> <<>>]

\* the form page as it is right after it was opened
Pristine(c) ==
    route[c] = "/" /\ home[c] = InitHome /\ form[c] = InitForm /\ calls[c] = <<>>

\* a request is answered or lost
Transport(c) ==
    \/ \E i \in 1..Len(calls[c]) : ServeSubmit(c, i)
    \/ \E i \in 1..Len(calls[c]) : ServeAssign(c, i)
    \/ \E i \in 1..Len(calls[c]) : NetworkFailure(c, i)
\* the browser calls one of the two callbacks of getCurrentPosition
Geolocation(c) ==
    \/ \E i \in 1..Len(calls[c]) :
          \E res \in ResolveReplies(resolveLocation(c, 28, 77, 10)) :
             geo_success(c, i, ProgressPosition, res)
    \/ \E i \in 1..Len(calls[c]), m \in GeoErrorMessages : geo_error(c, i, m)
\* the continuations of the awaited requests
Continuations(c) ==
    \/ \E i \in 1..Len(calls[c]) : captureLocation_resolved(c, i)
    \/ \E i \in 1..Len(calls[c]) : handleTicketChange_done(c, i)
    \/ \E i \in 1..Len(calls[c]) : handleSubmit_done(c, i)
    \/ \E i \in 1..Len(calls[c]) : handleAssign_done(c, i)
    \/ \E i \in 1..Len(calls[c]) : AuthProvider_me(c, i)
\* what the user does: the signed-in rider attaches a location to the complaint,
\* the anonymous visitor a ticket, the admin assigns departments
Gestures(c) ==
    \/ handleImageChange(c, "toilet.jpg")
    \/ \E i \in 1..Len(calls[c]) : reader_onloadend(c, i)
    \/ handleSubmit(c)
    \/ HomePage_handleReset(c)
    \/ token[c] = "rita" /\ captureLocation(c)
    \/ token[c] = NoToken
          /\ \E res \in ExtractReplies(extractTicket(c, "ticketA.png")) :
                handleTicketChange(c, "ticketA.png", res)
    \/ Pristine(c) /\ \E res \in MeReplies(token[c]) : PageLoad(c, "/", res)
    \/ \E id \in ProgressCards : setAssignDeptByComplaint(c, id, <<" ", "E", "M">>)
    \/ \E id \in ProgressCards, by \in {"click", "Enter"} : handleAssign(c, id, by)

NextProgress ==
    \/ Gestures("c1")
    \/ Transport("c1")
    \/ Geolocation("c1")
    \/ Continuations("c1")
\* every request and every geolocation callback completes, and the event loop
\* runs every continuation that is ready
FairProgress ==
    /\ WF_vars(\E i \in 1..Len(calls["c1"]) :
                  ServeSubmit("c1", i) \/ NetworkFailure("c1", i))
    /\ WF_vars(\E i \in 1..Len(calls["c1"]) :
                  ServeAssign("c1", i) \/ NetworkFailure("c1", i))
    /\ WF_vars(Geolocation("c1"))
    /\ WF_vars(\E i \in 1..Len(calls["c1"]) : captureLocation_resolved("c1", i))
    /\ WF_vars(\E i \in 1..Len(calls["c1"]) : handleTicketChange_done("c1", i))
    /\ WF_vars(\E i \in 1..Len(calls["c1"]) : handleSubmit_done("c1", i))
    /\ WF_vars(\E i \in 1..Len(calls["c1"]) : handleAssign_done("c1", i))
    /\ WF_vars(\E i \in 1..Len(calls["c1"]) : AuthProvider_me("c1", i))
SpecProgress == InitProgress /\ [][NextProgress]_vars /\ FairProgress

\* C24: provided every request and every geolocation callback completes, every
\* in-progress flag that is set is cleared again: locationLoading after
\* captureLocation, ticketLoading after handleTicketChange, submitting after
\* handleSubmit, assigning after handleAssign and the AuthProvider's loading
\* after the startup check.
C24_FlagsAreCleared ==
    \A c \in Clients :
       /\ form[c].locationLoading ~> ~form[c].locationLoading
       /\ form[c].ticketLoading ~> ~form[c].ticketLoading
       /\ form[c].submitting ~> ~form[c].submitting
       /\ (dash[c].assigning # NoId) ~> (dash[c].assigning = NoId)
       /\ auth[c].loading ~> ~auth[c].loading

\* the rider's page after a failed startup check, a position whose railway
\* context could not be resolved and a failed submission: the three flags are
\* clear again
C24_Witness ==
    /\ token["c1"] = "rita"
    /\ auth["c1"] = [user |-> Null, loading |-> FALSE]
    /\ form["c1"].locationError = "Could not resolve railway context."
    /\ form["c1"].location = RawLocation(ProgressPosition)
    /\ ~form["c1"].locationLoading
    /\ Truthy(home["c1"].error)
    /\ ~form["c1"].submitting
    /\ calls["c1"] = <<>>

====
